---- MODULE Spec2Model ----
(***************************************************************************)
(* Model of the figma-cli node simplification, paint normalisation and     *)
(* image post-processing code.                                             *)
(*                                                                         *)
(* The transformation functions are pure: a behaviour is one call.         *)
(* `call` holds the function and its arguments, `result` what the call     *)
(* returned (or the error it threw), `pc` whether the call has run.        *)
(*                                                                         *)
(* The image download command and the resource store of the MCP server     *)
(* have state of their own: `jobs` are the image jobs in flight, `files`   *)
(* the files written, `console` the lines printed (for the MCP server, the *)
(* tool calls answered so far) and `store` the figmaDataStore map.         *)
(* `server` is the MCP server process of the variant that reads its mode   *)
(* from the environment and publishes every stored key as a resource.      *)
(* `heap` holds the objects and arrays of a limitNodeDepth call, or of a   *)
(* parseFigmaResponse call, by reference, so that a change of the caller's *)
(* objects is a change of state.                                           *)
(***************************************************************************)
EXTENDS Integers, Sequences, FiniteSets, TLC

VARIABLES pc, call, result, jobs, files, console, store, server, heap

vars == <<pc, call, result, jobs, files, console, store, server, heap>>

\* the state outside a pure call
world == <<jobs, files, console, store, server, heap>>

(***************************************************************************)
(* JavaScript values.  Every value carries its type tag, so that an empty  *)
(* array and an empty object stay different values.                        *)
(***************************************************************************)
Undef == [t |-> "undefined"]

Null == [t |-> "null"]

Str(s) == [t |-> "string", s |-> s]

Num(n) == [t |-> "number", n |-> n]

\* a number given in hundredths (opacity 0.25 is Hundredths(25))
Hundredths(h) == [t |-> "number", h |-> h]

Arr(a) == [t |-> "array", a |-> a]

Obj(o) == [t |-> "object", o |-> o]

EmptyObj == [k \in {} |-> Undef]

\* no image job, no file written, nothing logged, an empty figmaDataStore
Quiet == jobs = <<>> /\ files = EmptyObj /\ console = <<>> /\ store = EmptyObj /\ server = EmptyObj
           /\ heap = EmptyObj

\* a thrown Error: what a call yields instead of a value
Throw(msg) == [t |-> "throw", msg |-> msg]

IsThrow(v) == v.t = "throw"

\* o with key k set to v (an assignment o[k] = v)
Put(o, k, v) == [x \in (DOMAIN o) \cup {k} |-> IF x = k THEN v ELSE o[x]]

\* o.k, undefined when the key is absent
Get(o, k) == IF k \in DOMAIN o THEN o[k] ELSE Undef

(***************************************************************************)
(* Number formatting, as template literals print numbers.                  *)
(***************************************************************************)
Digit(d) == CASE d = 0 -> "0" [] d = 1 -> "1" [] d = 2 -> "2" [] d = 3 -> "3"
              [] d = 4 -> "4" [] d = 5 -> "5" [] d = 6 -> "6" [] d = 7 -> "7"
              [] d = 8 -> "8" [] d = 9 -> "9"

RECURSIVE NatStr(_)
NatStr(n) == IF n < 10 THEN Digit(n) ELSE NatStr(n \div 10) \o Digit(n % 10)

IntStr(n) == IF n < 0 THEN "-" \o NatStr(0 - n) ELSE NatStr(n)

\* the decimal print of h/100: 100 -> "1", 50 -> "0.5", 25 -> "0.25", -50 -> "-0.5"
HundredthsStr(h) ==
  LET a == IF h < 0 THEN 0 - h ELSE h
      whole == NatStr(a \div 100)
      frac == a % 100
      body == IF frac = 0 THEN whole
              ELSE IF frac % 10 = 0 THEN whole \o "." \o Digit(frac \div 10)
              ELSE whole \o "." \o Digit(frac \div 10) \o Digit(frac % 10)
  IN IF h < 0 THEN "-" \o body ELSE body

\* Math.round of num/den for den > 0: the nearest integer, halves towards +Infinity
RoundDiv(num, den) == (2 * num + den) \div (2 * den)

(***************************************************************************)
(* removeEmptyKeys                                                         *)
(***************************************************************************)
\* the emptiness test without its empty-object disjunct
IsEmptyValueNoObject(v) ==
  \/ v.t = "undefined"
  \/ (v.t = "array" /\ Len(v.a) = 0)

\* the test of the `if` that guards result[key] = cleanedValue, negated
IsEmptyValue(v) ==
  \/ v.t = "undefined"
  \/ (v.t = "array" /\ Len(v.a) = 0)
  \/ (v.t = "object" /\ DOMAIN v.o = {})

RECURSIVE removeEmptyKeysRawTest(_)
\* removeEmptyKeys testing the uncleaned value for emptiness
removeEmptyKeysRawTest(input) ==
  IF input.t \notin {"object", "array"} THEN input
  ELSE IF input.t = "array"
    THEN Arr([i \in DOMAIN input.a |-> removeEmptyKeysRawTest(input.a[i])])
  ELSE LET kept == {k \in DOMAIN input.o : ~IsEmptyValue(input.o[k])}
       IN Obj([k \in kept |-> removeEmptyKeysRawTest(input.o[k])])

RECURSIVE removeEmptyKeys(_)
removeEmptyKeys(input) ==
  IF input.t \notin {"object", "array"} THEN input
  ELSE IF input.t = "array"
    THEN Arr([i \in DOMAIN input.a |-> removeEmptyKeys(input.a[i])])
  ELSE LET cleaned == [k \in DOMAIN input.o |-> removeEmptyKeys(input.o[k])]
           kept == {k \in DOMAIN input.o : ~IsEmptyValue(cleaned[k])}
       IN Obj([k \in kept |-> cleaned[k]])

(***************************************************************************)
(* Inputs of removeEmptyKeys: every value of at most MaxValueSize nodes    *)
(* (scalars and containers), arrays of at most two elements, objects over  *)
(* the keys a and b.                                                       *)
(***************************************************************************)
MaxValueSize == 5

Scalars == {Undef, Null, Str("")}

RECURSIVE JSValuesOfSize(_)
JSValuesOfSize(n) ==
  IF n = 1 THEN Scalars \cup {Arr(<<>>), Obj(EmptyObj)}
  ELSE LET one == JSValuesOfSize(n - 1)
           two == UNION {JSValuesOfSize(i) \X JSValuesOfSize(n - 1 - i) : i \in 1..(n - 2)}
       IN {Arr(<<v>>) : v \in one}
          \cup {Arr(<<p[1], p[2]>>) : p \in two}
          \cup {Obj(Put(EmptyObj, k, v)) : k \in {"a", "b"}, v \in one}
          \cup {Obj(Put(Put(EmptyObj, "a", p[1]), "b", p[2])) : p \in two}

JSValues == UNION {JSValuesOfSize(n) : n \in 1..MaxValueSize}

PruneCalls == {[fn |-> "removeEmptyKeys", input |-> v] : v \in JSValues}

(***************************************************************************)
(* Colours.  A fractional number is an exact ratio num/den (den > 0);      *)
(* a colour is [r, g, b, a], each channel such a ratio in [0, 1].          *)
(***************************************************************************)
Rat(n, d) == [num |-> n, den |-> d]

One == Rat(1, 1)

HexDigitLower(d) == IF d < 10 THEN Digit(d)
                    ELSE CASE d = 10 -> "a" [] d = 11 -> "b" [] d = 12 -> "c"
                           [] d = 13 -> "d" [] d = 14 -> "e" [] d = 15 -> "f"

\* Number.prototype.toString(16), as a sequence of characters
RECURSIVE ToString16(_)
ToString16(n) == IF n < 16 THEN <<HexDigitLower(n)>>
                 ELSE Append(ToString16(n \div 16), HexDigitLower(n % 16))

\* String.prototype.toUpperCase on one character
UpperChar(c) == CASE c = "a" -> "A" [] c = "b" -> "B" [] c = "c" -> "C"
                  [] c = "d" -> "D" [] c = "e" -> "E" [] c = "f" -> "F"
                  [] OTHER -> c

\* the string made of a sequence of characters
RECURSIVE JoinChars(_)
JoinChars(cs) == IF Len(cs) = 0 THEN "" ELSE Head(cs) \o JoinChars(Tail(cs))

\* Math.round(channel * 255)
Channel255(c) == RoundDiv(c.num * 255, c.den)

\* Math.round(opacity * color.a * 100) / 100, in hundredths
CombinedAlpha(color, opacity) ==
  RoundDiv(opacity.num * color.a.num * 100, opacity.den * color.a.den)

convertColor(color, opacity) ==
  LET r == Channel255(color.r)
      g == Channel255(color.g)
      b == Channel255(color.b)
      a == CombinedAlpha(color, opacity)
      digits == Tail(ToString16(16777216 + r * 65536 + g * 256 + b))
      hex == "#" \o JoinChars([i \in DOMAIN digits |-> UpperChar(digits[i])])
  IN [hex |-> hex, opacity |-> a]

formatRGBAColor(color, opacity) ==
  LET r == Channel255(color.r)
      g == Channel255(color.g)
      b == Channel255(color.b)
      a == CombinedAlpha(color, opacity)
  IN "rgba(" \o NatStr(r) \o ", " \o NatStr(g) \o ", " \o NatStr(b) \o ", "
       \o HundredthsStr(a) \o ")"

(***************************************************************************)
(* Gradient geometry.  A handle position is [x, y] in halves of the unit   *)
(* square (x = 2 is 1.0, x = 3 is 1.5, x = -1 is -0.5); a malformed handle *)
(* is Null.  Angles are in thousandths of a degree.                        *)
(***************************************************************************)
Min(a, b) == IF a < b THEN a ELSE b

Max(a, b) == IF a > b THEN a ELSE b

Abs(a) == IF a < 0 THEN 0 - a ELSE a

\* what a helper yields: a value, or the error it threw
Ok(v) == [threw |-> FALSE, v |-> v]

Threw(msg) == [threw |-> TRUE, v |-> msg]

\* atan(p/q) for 0 <= p <= q, q > 0, on the ratios the handle grid produces
AtanMilli(p, q) == CASE p = 0 -> 0
                     [] p = q -> 45000
                     [] 2 * p = q -> 26565

\* Math.atan2(dy, dx) * (180 / Math.PI)
Atan2Milli(dy, dx) ==
  IF dx = 0 /\ dy = 0 THEN 0
  ELSE LET ay == Abs(dy)
           ax == Abs(dx)
           theta == IF ay <= ax THEN AtanMilli(ay, ax) ELSE 90000 - AtanMilli(ax, ay)
       IN IF dx >= 0 THEN (IF dy >= 0 THEN theta ELSE 0 - theta)
          ELSE (IF dy >= 0 THEN 180000 - theta ELSE theta - 180000)

\* calculateAngle with the two operands of atan2 exchanged
calculateAngleSwapped(p1, p2) ==
  (90000 - Atan2Milli(p2.x - p1.x, p2.y - p1.y) + 360000) % 360000

calculateAngle(p1, p2) ==
  (90000 - Atan2Milli(p2.y - p1.y, p2.x - p1.x) + 360000) % 360000

\* Math.sqrt(s / 4) in thousandths, s a sum of two squares of halves
SqrtMilli(s) == CASE s = 0 -> 0 [] s = 1 -> 500 [] s = 2 -> 707 [] s = 4 -> 1000
                  [] s = 5 -> 1118 [] s = 8 -> 1414

calculateDistance(p1, p2) ==
  SqrtMilli((p2.x - p1.x) * (p2.x - p1.x) + (p2.y - p1.y) * (p2.y - p1.y))

clamp(value, min, max) == Max(min, Min(max, value))

convertGradientHandlePositions(handles) ==
  IF Len(handles) < 2 THEN Ok(<<[x |-> 0, y |-> 0], [x |-> 2, y |-> 2]>>)
  ELSE IF \E i \in DOMAIN handles : handles[i] = Null
    THEN Threw("TypeError: Cannot read properties of null")
  ELSE Ok([i \in DOMAIN handles |->
            [x |-> clamp(handles[i].x, 0, 2), y |-> clamp(handles[i].y, 0, 2)]])

DefaultStops == "rgba(0,0,0,1) 0%, rgba(255,255,255,1) 100%"

\* Array.prototype.join
RECURSIVE Join(_, _)
Join(strs, sep) == IF Len(strs) = 0 THEN ""
                   ELSE IF Len(strs) = 1 THEN strs[1]
                   ELSE strs[1] \o sep \o Join(Tail(strs), sep)

generateGradientStops(stops) ==
  IF Len(stops) = 0 THEN Ok(DefaultStops)
  ELSE IF \E i \in DOMAIN stops : "color" \notin DOMAIN stops[i]
    THEN Threw("TypeError: Cannot read properties of undefined")
  ELSE Ok(Join([i \in DOMAIN stops |->
                 formatRGBAColor(stops[i].color, One) \o " "
                   \o IntStr(RoundDiv(stops[i].position.num * 100, stops[i].position.den))
                   \o "%"], ", "))

\* Math.round(coordinate * 100) of a coordinate in halves
Percent(c) == 50 * c

convertLinearGradient(handlePositions, gradientStops) ==
  LET h == convertGradientHandlePositions(handlePositions)
      stops == generateGradientStops(gradientStops)
  IN IF h.threw THEN h
     ELSE IF stops.threw THEN stops
     ELSE Ok("linear-gradient(" \o NatStr(RoundDiv(calculateAngle(h.v[1], h.v[2]), 1000))
               \o "deg, " \o stops.v \o ")")

convertRadialGradient(handlePositions, gradientStops) ==
  LET h == convertGradientHandlePositions(handlePositions)
      stops == generateGradientStops(gradientStops)
  IN IF h.threw THEN h
     ELSE IF stops.threw THEN stops
     ELSE Ok("radial-gradient(circle "
               \o NatStr(RoundDiv(calculateDistance(h.v[1], h.v[2]) * 100, 1000))
               \o "% at " \o NatStr(Percent(h.v[1].x)) \o "% " \o NatStr(Percent(h.v[1].y))
               \o "%, " \o stops.v \o ")")

convertAngularGradient(handlePositions, gradientStops) ==
  LET h == convertGradientHandlePositions(handlePositions)
      stops == generateGradientStops(gradientStops)
  IN IF h.threw THEN h
     ELSE IF stops.threw THEN stops
     ELSE Ok("conic-gradient(from " \o NatStr(RoundDiv(calculateAngle(h.v[1], h.v[2]), 1000))
               \o "deg at " \o NatStr(Percent(h.v[1].x)) \o "% " \o NatStr(Percent(h.v[1].y))
               \o "%, " \o stops.v \o ")")

convertDiamondGradient(handlePositions, gradientStops) ==
  LET h == convertGradientHandlePositions(handlePositions)
      stops == generateGradientStops(gradientStops)
  IN IF h.threw THEN h
     ELSE IF stops.threw THEN stops
     ELSE Ok("radial-gradient(ellipse "
               \o NatStr(Percent(Abs(h.v[2].x - h.v[1].x))) \o "% "
               \o NatStr(Percent(Abs(h.v[2].y - h.v[1].y))) \o "% at "
               \o NatStr(Percent(h.v[1].x)) \o "% " \o NatStr(Percent(h.v[1].y))
               \o "%, " \o stops.v \o ")")

\* convertGradientToCSS whose catch block always yields the fixed fallback
convertGradientToCSSFixedFallback(type, handlePositions, gradientStops) ==
  LET tried == CASE type = "GRADIENT_LINEAR" -> convertLinearGradient(handlePositions, gradientStops)
                 [] type = "GRADIENT_RADIAL" -> convertRadialGradient(handlePositions, gradientStops)
                 [] type = "GRADIENT_ANGULAR" -> convertAngularGradient(handlePositions, gradientStops)
                 [] type = "GRADIENT_DIAMOND" -> convertDiamondGradient(handlePositions, gradientStops)
                 [] OTHER -> convertLinearGradient(handlePositions, gradientStops)
  IN IF ~tried.threw THEN tried
     ELSE Ok("linear-gradient(0deg, " \o DefaultStops \o ")")

\* the try block, then the catch block, whose own error is not caught
convertGradientToCSS(type, handlePositions, gradientStops) ==
  LET tried == CASE type = "GRADIENT_LINEAR" -> convertLinearGradient(handlePositions, gradientStops)
                 [] type = "GRADIENT_RADIAL" -> convertRadialGradient(handlePositions, gradientStops)
                 [] type = "GRADIENT_ANGULAR" -> convertAngularGradient(handlePositions, gradientStops)
                 [] type = "GRADIENT_DIAMOND" -> convertDiamondGradient(handlePositions, gradientStops)
                 [] OTHER -> convertLinearGradient(handlePositions, gradientStops)
  IN IF ~tried.threw THEN tried
     ELSE LET fallbackStops == IF Len(gradientStops) > 0 THEN generateGradientStops(gradientStops)
                               ELSE Ok(DefaultStops)
          IN IF fallbackStops.threw THEN fallbackStops
             ELSE Ok("linear-gradient(0deg, " \o fallbackStops.v \o ")")

(***************************************************************************)
(* parsePaint.  A raw paint is a record; an optional field is a field the  *)
(* record may lack.                                                        *)
(***************************************************************************)
GradientTypes == {"GRADIENT_LINEAR", "GRADIENT_RADIAL", "GRADIENT_ANGULAR", "GRADIENT_DIAMOND"}

GradientFallback == "linear-gradient(0deg, rgba(0,0,0,1) 0%, rgba(255,255,255,1) 100%)"

\* String.prototype.toUpperCase on the scale modes of the API
UpperCase(s) == CASE s = "fill" -> "FILL" [] s = "fit" -> "FIT" [] s = "crop" -> "CROP"
                  [] s = "tile" -> "TILE" [] s = "stretch" -> "STRETCH" [] OTHER -> s

\* raw[k] as a JavaScript value, undefined when absent
Field(raw, k) == IF k \in DOMAIN raw THEN raw[k] ELSE Undef

\* a paint of an unknown type read as no fill at all
UnknownPaintSkipped(raw) == Undef

\* the final else branch: throw new Error(`Unknown paint type: ${raw.type}`)
UnknownPaint(raw) == Throw("Unknown paint type: " \o raw.type)

parsePaint(raw, processingOptions) ==
  IF raw.type = "IMAGE" THEN
    LET base == [k \in {"type", "imageRef", "scaleMode", "imageProcessingOptions"} |->
                  CASE k = "type" -> Str("IMAGE")
                    [] k = "imageRef" -> Field(raw, "imageRef")
                    [] k = "scaleMode" ->
                         IF "scaleMode" \in DOMAIN raw THEN Str(UpperCase(raw.scaleMode))
                         ELSE Str("FIT")
                    [] k = "imageProcessingOptions" -> processingOptions]
        optional == {k \in {"imageTransform", "scalingFactor", "rotation", "filters", "gifRef"} :
                       k \in DOMAIN raw}
    IN Obj([k \in DOMAIN base \cup optional |-> IF k \in DOMAIN base THEN base[k] ELSE raw[k]])
  ELSE IF raw.type = "SOLID" THEN
    LET c == convertColor(raw.color, IF "opacity" \in DOMAIN raw THEN raw.opacity ELSE One)
    IN IF c.opacity = 100 THEN Str(c.hex)
       ELSE Str(formatRGBAColor(raw.color, Rat(c.opacity, 100)))
  ELSE IF raw.type \in GradientTypes THEN
    IF "gradientHandlePositions" \notin DOMAIN raw \/ "gradientStops" \notin DOMAIN raw
      THEN Str(GradientFallback)
    ELSE LET css == convertGradientToCSS(raw.type, raw.gradientHandlePositions, raw.gradientStops)
         IN IF css.threw THEN Throw(css.v) ELSE Str(css.v)
  ELSE IF raw.type = "PATTERN" THEN
    Obj([k \in {"type", "sourceNodeId", "tileType", "scalingFactor", "spacing",
                "horizontalAlignment", "verticalAlignment"} |->
          IF k = "type" THEN Str("PATTERN") ELSE Field(raw, k)])
  ELSE UnknownPaint(raw)

(***************************************************************************)
(* Inputs of parsePaint                                                    *)
(***************************************************************************)
ColorSteps == 4

\* the fractions 0, 1/ColorSteps, .., 1
Fractions == {Rat(k, ColorSteps) : k \in 0..ColorSteps}

Colors == [r : Fractions, g : Fractions, b : Fractions, a : Fractions]

SolidPaints ==
  {[type |-> "SOLID", color |-> c] : c \in Colors}
    \cup {[type |-> "SOLID", color |-> c, opacity |-> o] : c \in Colors, o \in Fractions}

HandleCoords == {-1, 0, 1, 2, 3}

HandlePoints == [x : HandleCoords, y : HandleCoords]

HandleLists ==
  {<<>>, <<[x |-> 0, y |-> 0]>>, <<Null, [x |-> 2, y |-> 2]>>}
    \cup {<<p1, p2, [x |-> 0, y |-> 2]>> : p1 \in HandlePoints, p2 \in HandlePoints}

Black == [r |-> Rat(0, 1), g |-> Rat(0, 1), b |-> Rat(0, 1), a |-> One]

Coral == [r |-> One, g |-> Rat(1, 2), b |-> Rat(1, 3), a |-> Rat(1, 2)]

StopLists ==
  { <<>>,
    <<[position |-> Rat(0, 1), color |-> Black], [position |-> Rat(2, 3), color |-> Coral]>>,
    <<[position |-> Rat(0, 1), color |-> Black], [position |-> One]>> }

GradientPaints ==
  {[type |-> t] : t \in GradientTypes}
    \cup {[type |-> t, gradientHandlePositions |-> h] : t \in GradientTypes, h \in HandleLists}
    \cup {[type |-> t, gradientStops |-> st] : t \in GradientTypes, st \in StopLists}
    \cup {[type |-> t, gradientHandlePositions |-> h, gradientStops |-> st] :
            t \in GradientTypes, h \in HandleLists, st \in StopLists}

ImagePaints ==
  { [type |-> "IMAGE", imageRef |-> Str("img1")],
    [type |-> "IMAGE", imageRef |-> Str("img1"), scaleMode |-> "tile", scalingFactor |-> Num(2)],
    [type |-> "IMAGE", imageRef |-> Str("img1"), scaleMode |-> "FILL", gifRef |-> Str("gif1")] }

PatternPaints ==
  { [type |-> "PATTERN", sourceNodeId |-> Str("9:1"), tileType |-> Str("RECTANGULAR")] }

UnknownPaints == {[type |-> "VIDEO"], [type |-> "EMOJI"]}

RawPaints == SolidPaints \cup GradientPaints \cup ImagePaints \cup PatternPaints \cup UnknownPaints

PaintCalls == {[fn |-> "parsePaint", raw |-> p] : p \in RawPaints}

(***************************************************************************)
(* generateCSSShorthand                                                    *)
(***************************************************************************)
\* generateCSSShorthand testing top === bottom before right === left
generateCSSShorthandTopBottomFirst(values, ignoreZero, suffix) ==
  LET top == NatStr(values.top) \o suffix
      right == NatStr(values.right) \o suffix
      bottom == NatStr(values.bottom) \o suffix
      left == NatStr(values.left) \o suffix
  IN IF ignoreZero /\ values.top = 0 /\ values.right = 0 /\ values.bottom = 0 /\ values.left = 0
       THEN Undef
     ELSE IF values.top = values.right /\ values.right = values.bottom /\ values.bottom = values.left
       THEN Str(top)
     ELSE IF values.top = values.bottom
       THEN IF values.right = values.left THEN Str(top \o " " \o right)
            ELSE Str(top \o " " \o right \o " " \o bottom)
     ELSE Str(top \o " " \o right \o " " \o bottom \o " " \o left)

generateCSSShorthand(values, ignoreZero, suffix) ==
  LET top == NatStr(values.top) \o suffix
      right == NatStr(values.right) \o suffix
      bottom == NatStr(values.bottom) \o suffix
      left == NatStr(values.left) \o suffix
  IN IF ignoreZero /\ values.top = 0 /\ values.right = 0 /\ values.bottom = 0 /\ values.left = 0
       THEN Undef
     ELSE IF values.top = values.right /\ values.right = values.bottom /\ values.bottom = values.left
       THEN Str(top)
     ELSE IF values.right = values.left
       THEN IF values.top = values.bottom THEN Str(top \o " " \o right)
            ELSE Str(top \o " " \o right \o " " \o bottom)
     ELSE Str(top \o " " \o right \o " " \o bottom \o " " \o left)

MaxSide == 3

Sides == 0..MaxSide

\* ignoreZero and suffix default to true and "px" when the option is absent
ShorthandCalls ==
  {[fn |-> "generateCSSShorthand", values |-> v, options |-> o] :
     v \in [top : Sides, right : Sides, bottom : Sides, left : Sides],
     o \in {[x \in {} |-> TRUE], [ignoreZero |-> FALSE], [ignoreZero |-> TRUE, suffix |-> "%"]}}

(***************************************************************************)
(* hexToRgba.  The hex string is a sequence of characters; the opacity is  *)
(* a number in hundredths.                                                 *)
(***************************************************************************)
HexCharValue(c) ==
  CASE c = "0" -> 0 [] c = "1" -> 1 [] c = "2" -> 2 [] c = "3" -> 3 [] c = "4" -> 4
    [] c = "5" -> 5 [] c = "6" -> 6 [] c = "7" -> 7 [] c = "8" -> 8 [] c = "9" -> 9
    [] c \in {"a", "A"} -> 10 [] c \in {"b", "B"} -> 11 [] c \in {"c", "C"} -> 12
    [] c \in {"d", "D"} -> 13 [] c \in {"e", "E"} -> 14 [] c \in {"f", "F"} -> 15
    [] OTHER -> -1

\* parseInt(chars, 16): the value of the longest hexadecimal prefix, NaN (-1) if none
RECURSIVE ParseInt16From(_, _)
ParseInt16From(cs, acc) ==
  IF Len(cs) = 0 \/ HexCharValue(Head(cs)) < 0 THEN acc
  ELSE ParseInt16From(Tail(cs), 16 * acc + HexCharValue(Head(cs)))

ParseInt16(cs) ==
  IF Len(cs) = 0 \/ HexCharValue(Head(cs)) < 0 THEN -1 ELSE ParseInt16From(cs, 0)

NumberStr(n) == IF n < 0 THEN "NaN" ELSE NatStr(n)

\* String.prototype.substring(from, to) on a sequence of characters
Substring(cs, from, to) == SubSeq(cs, Min(from, Len(cs)) + 1, Min(to, Len(cs)))

\* String.prototype.replace("#", ""): the first # is removed
RECURSIVE RemoveFirstHash(_)
RemoveFirstHash(cs) ==
  IF Len(cs) = 0 THEN cs
  ELSE IF Head(cs) = "#" THEN Tail(cs)
  ELSE <<Head(cs)>> \o RemoveFirstHash(Tail(cs))

\* the rest of hexToRgba once the digits are settled
HexDigitsToRgba(hex, opacity) ==
  LET r == ParseInt16(Substring(hex, 0, 2))
      g == ParseInt16(Substring(hex, 2, 4))
      b == ParseInt16(Substring(hex, 4, 6))
      validOpacity == Min(Max(opacity, 0), 100)
  IN Str("rgba(" \o NumberStr(r) \o ", " \o NumberStr(g) \o ", " \o NumberStr(b) \o ", "
           \o HundredthsStr(validOpacity) \o ")")

\* hexToRgba without the expansion of the three-digit form
hexToRgbaNoShorthand(hex, opacity) == HexDigitsToRgba(RemoveFirstHash(hex), opacity)

hexToRgba(hex, opacity) ==
  LET stripped == RemoveFirstHash(hex)
      six == IF Len(stripped) = 3
             THEN <<stripped[1], stripped[1], stripped[2], stripped[2], stripped[3], stripped[3]>>
             ELSE stripped
  IN HexDigitsToRgba(six, opacity)

HexChars == {"0", "9", "a", "F", "c"}

ThreeDigits == {<<a, b, c>> : a \in HexChars, b \in HexChars, c \in HexChars}

HexStrings ==
  LET bare == ThreeDigits
                \cup {<<d[1], d[1], d[2], d[2], d[3], d[3]>> : d \in ThreeDigits}
                \cup {<<"1", "2", "a", "B", "e", "7">>, <<"f", "f">>, <<>>}
  IN bare \cup {<<"#">> \o h : h \in bare}

Opacities == {-50, 0, 25, 50, 100, 150}

HexCalls ==
  {[fn |-> "hexToRgba", hex |-> h] : h \in HexStrings}
    \cup {[fn |-> "hexToRgba", hex |-> h, opacity |-> o] : h \in HexStrings, o \in Opacities}

(***************************************************************************)
(* processImageBuffer.  The image library is outside the repository: the   *)
(* result is the pipeline the function asks it to run.                     *)
(***************************************************************************)
\* a && b on optional numbers: the option is there and is not 0
Truthy(r, k) == k \in DOMAIN r /\ r[k] # 0

Ceil(a, b) == (a + b - 1) \div b

\* the composite list of the TILE branch: for y, for x, push {left, top}
TileComposite(tilesX, tilesY, tileWidth, tileHeight) ==
  [i \in 1..(tilesX * tilesY) |->
     [left |-> ((i - 1) % tilesX) * tileWidth, top |-> ((i - 1) \div tilesX) * tileHeight]]

\* the quality step: only for a jpeg or webp input
Encoded(metadata, options) ==
  IF Truthy(options, "quality") /\ metadata.format \in {"jpeg", "webp"}
  THEN [format |-> metadata.format, quality |-> options.quality]
  ELSE [format |-> metadata.format]

\* the tile count with Math.floor in place of Math.ceil
TileCountFloor(target, tileSize) == target \div tileSize

\* Math.ceil(target / tileSize)
TileCount(target, tileSize) == Ceil(target, tileSize)

processImageBuffer(metadata, options) ==
  LET originalWidth == metadata.width
      originalHeight == metadata.height
      both == Truthy(options, "width") /\ Truthy(options, "height")
      either == Truthy(options, "width") \/ Truthy(options, "height")
      passthrough == [op |-> "none", output |-> Encoded(metadata, options)]
      resize(fit, extra) ==
        [op |-> "resize", fit |-> fit, size |-> [k \in {"width", "height"} \cap DOMAIN options |-> options[k]],
         extra |-> extra, output |-> Encoded(metadata, options)]
  IN CASE options.mode = "FILL" -> IF both THEN resize("fill", <<>>) ELSE passthrough
       [] options.mode = "FIT" ->
            IF either
            THEN resize("inside", IF "background" \in DOMAIN options THEN <<options.background>> ELSE <<>>)
            ELSE passthrough
       [] options.mode = "CROP" ->
            IF both
            THEN resize("cover", IF "position" \in DOMAIN options THEN <<options.position>> ELSE <<>>)
            ELSE passthrough
       [] options.mode = "TILE" ->
            IF both
            THEN LET tileWidth == Min(originalWidth, options.width)
                     tileHeight == Min(originalHeight, options.height)
                     tilesX == TileCount(options.width, tileWidth)
                     tilesY == TileCount(options.height, tileHeight)
                 IN [op |-> "composite",
                     canvas |-> [width |-> options.width, height |-> options.height],
                     tile |-> [width |-> tileWidth, height |-> tileHeight],
                     composite |-> TileComposite(tilesX, tilesY, tileWidth, tileHeight),
                     output |-> Encoded(metadata, options)]
            ELSE passthrough
       [] OTHER -> Throw("Unsupported image processing mode: " \o options.mode)

MaxDim == 5

SourceDims == 1..MaxDim

TargetDims == (1..MaxDim) \cup {8, 12}

TileCalls ==
  {[fn |-> "processImageBuffer",
    metadata |-> [width |-> w, height |-> h, format |-> "png"],
    options |-> [mode |-> "TILE", width |-> tw, height |-> th]] :
     w \in SourceDims, h \in SourceDims, tw \in TargetDims, th \in TargetDims}
  \cup
  {[fn |-> "processImageBuffer",
    metadata |-> [width |-> 50, height |-> 50, format |-> "jpeg"],
    options |-> [mode |-> "TILE", width |-> 120, height |-> 80, quality |-> 85]]}

ResizeCalls ==
  {[fn |-> "processImageBuffer",
    metadata |-> [width |-> 4, height |-> 3, format |-> f],
    options |-> o] :
     f \in {"png", "jpeg", "webp"},
     o \in {[mode |-> m] : m \in {"FILL", "FIT", "CROP", "TILE", "STRETCH"}}
             \cup {[mode |-> m, width |-> 2] : m \in {"FILL", "FIT", "CROP", "TILE", "STRETCH"}}
             \cup {[mode |-> m, width |-> 2, height |-> 2, quality |-> 85] :
                     m \in {"FILL", "FIT", "CROP", "STRETCH"}}
             \cup {[mode |-> "FIT", height |-> 2, background |-> "#fff"],
                   [mode |-> "CROP", width |-> 2, height |-> 1, position |-> "top"]}}

ImageCalls == TileCalls \cup ResizeCalls

(***************************************************************************)
(* validateImageProcessingOptions.  The options are a record with mode and *)
(* any of quality, width, height (integers); the result is undefined or    *)
(* the error thrown.                                                       *)
(***************************************************************************)
ValidModes == {"FILL", "FIT", "CROP", "TILE"}

validateImageProcessingOptions(options) ==
  IF options.mode \notin ValidModes
    THEN Throw("Invalid image processing mode: " \o options.mode
                 \o ". Valid modes are: FILL, FIT, CROP, TILE")
  ELSE IF Truthy(options, "quality") /\ (options.quality < 1 \/ options.quality > 100)
    THEN Throw("Quality must be between 1 and 100")
  ELSE IF Truthy(options, "width") /\ options.width <= 0
    THEN Throw("Width must be greater than 0")
  ELSE IF Truthy(options, "height") /\ options.height <= 0
    THEN Throw("Height must be greater than 0")
  ELSE Undef

Qualities == {-1, 0, 1, 85, 100, 101}

Extents == {-1, 0, 1, 64}

\* recs, and each record of recs with the option k set to a value of vals
WithOption(recs, k, vals) == recs \cup {Put(r, k, v) : r \in recs, v \in vals}

\* the options over mode and every subset of quality, width, height
ProcessingOptions ==
  WithOption(WithOption(WithOption({[mode |-> m] : m \in ValidModes \cup {"STRETCH"}},
                                   "quality", Qualities), "width", Extents), "height", Extents)

ValidateCalls == {[fn |-> "validateImageProcessingOptions", options |-> o] : o \in ProcessingOptions}

(***************************************************************************)
(* parseNode and parseFigmaResponse.  A raw node is a record with the      *)
(* fields id, name, type and any of visible, children, characters, style,  *)
(* fills, opacity (in hundredths), cornerRadius, rectangleCornerRadii,     *)
(* componentId, componentProperties (a sequence of entries).               *)
(***************************************************************************)
\* isVisible reading every element as visible
isVisibleAlways(element) == TRUE

\* element.visible ?? true
isVisible(element) == IF "visible" \in DOMAIN element THEN element.visible ELSE TRUE

\* hasValue(key, obj) without a type guard
hasValue(key, obj) == key \in DOMAIN obj

\* the layout, stroke and effect transformers are collaborators outside the
\* repository's source: they are taken to contribute nothing to a node
buildSimplifiedStrokes(n) == [colors |-> <<>>]

buildSimplifiedEffects(n) == EmptyObj

buildSimplifiedLayout(n, parent) == Put(EmptyObj, "mode", Str("none"))

\* the first thrown error among the results of a map, if any
FirstThrow(results) ==
  LET thrown == {i \in DOMAIN results : IsThrow(results[i])}
  IN IF thrown = {} THEN Undef
     ELSE results[CHOOSE i \in thrown : \A j \in thrown : i <= j]

\* `${num / den}`, printed exactly when the quotient has at most two decimals
QuotientStr(num, den) ==
  IF (num * 100) % den = 0 THEN HundredthsStr((num * 100) \div den)
  ELSE NatStr(num) \o "/" \o NatStr(den)

\* value.toString() of a component property value
ToStringValue(value) == IF value = TRUE THEN "true" ELSE IF value = FALSE THEN "false" ELSE value

\* the type field without the VECTOR rewrite
simplifiedTypeVerbatim(type) == type

\* the type field after `if (type === "VECTOR") simplified.type = "IMAGE-SVG"`
simplifiedType(type) == IF type = "VECTOR" THEN "IMAGE-SVG" ELSE type

\* the textStyle object of a raw style
TextStyleOf(style) ==
  LET truthy(k) == k \in DOMAIN style /\ style[k] # 0
      str(k) == IF k \in DOMAIN style THEN Str(style[k]) ELSE Undef
      num(k) == IF k \in DOMAIN style THEN Num(style[k]) ELSE Undef
  IN Obj([k \in {"fontFamily", "fontWeight", "fontSize", "lineHeight", "letterSpacing",
                 "textCase", "textAlignHorizontal", "textAlignVertical"} |->
       CASE k = "fontWeight" -> num(k)
         [] k = "fontSize" -> num(k)
         [] k = "lineHeight" ->
              IF truthy("lineHeightPx") /\ truthy("fontSize")
              THEN Str(QuotientStr(style.lineHeightPx, style.fontSize) \o "em")
              ELSE Undef
         [] k = "letterSpacing" ->
              IF truthy("letterSpacing") /\ truthy("fontSize")
              THEN Str(QuotientStr(style.letterSpacing * 100, style.fontSize) \o "%")
              ELSE Undef
         [] OTHER -> str(k)])

\* the simplified node built by parseNode from the raw node n, its parsed
\* fills, the results of the transformers and its parsed visible children
SimplifiedNodeOf(n, fills, strokes, effects, layout, children) ==
  LET instance == n.type = "INSTANCE"
      value(k) ==
        CASE k = "id" -> Str(n.id)
          [] k = "name" -> Str(n.name)
          [] k = "type" -> Str(simplifiedType(n.type))
          [] k = "componentId" -> Str(n.componentId)
          [] k = "componentProperties" ->
               Arr([i \in DOMAIN n.componentProperties |->
                     Obj([f \in {"name", "value", "type"} |->
                           CASE f = "name" -> Str(n.componentProperties[i].name)
                             [] f = "value" -> Str(ToStringValue(n.componentProperties[i].value))
                             [] f = "type" -> Str(n.componentProperties[i].type)])])
          [] k = "textStyle" -> TextStyleOf(n.style)
          [] k = "fills" -> Arr(fills)
          [] k = "strokes" -> Obj(strokes)
          [] k = "effects" -> Obj(effects)
          [] k = "layout" -> Obj(layout)
          [] k = "text" -> Str(n.characters)
          [] k = "opacity" -> Hundredths(n.opacity)
          [] k = "borderRadius" ->
               IF hasValue("rectangleCornerRadii", n) /\ Len(n.rectangleCornerRadii) = 4
               THEN Str(Join([i \in 1..4 |-> NatStr(n.rectangleCornerRadii[i]) \o "px"], " "))
               ELSE Str(NatStr(n.cornerRadius) \o "px")
          [] k = "children" -> Arr(children)
      keys ==
        {"id", "name", "type"}
          \cup (IF instance /\ hasValue("componentId", n) THEN {"componentId"} ELSE {})
          \cup (IF instance /\ hasValue("componentProperties", n) THEN {"componentProperties"} ELSE {})
          \cup (IF hasValue("style", n) /\ DOMAIN n.style # {} THEN {"textStyle"} ELSE {})
          \cup (IF Len(fills) > 0 THEN {"fills"} ELSE {})
          \cup (IF Len(strokes.colors) > 0 THEN {"strokes"} ELSE {})
          \cup (IF DOMAIN effects # {} THEN {"effects"} ELSE {})
          \cup (IF Cardinality(DOMAIN layout) > 1 THEN {"layout"} ELSE {})
          \cup (IF hasValue("characters", n) /\ n.characters # "" THEN {"text"} ELSE {})
          \cup (IF hasValue("opacity", n) /\ n.opacity # 100 THEN {"opacity"} ELSE {})
          \cup (IF hasValue("cornerRadius", n)
                   \/ (hasValue("rectangleCornerRadii", n) /\ Len(n.rectangleCornerRadii) = 4)
                THEN {"borderRadius"} ELSE {})
          \cup (IF Len(children) > 0 THEN {"children"} ELSE {})
  IN IF FirstThrow(fills) # Undef THEN FirstThrow(fills)
     ELSE IF FirstThrow(children) # Undef THEN FirstThrow(children)
     ELSE Obj([k \in keys |-> value(k)])

\* n.fills.map(parsePaint): map hands the index over as second argument
ParsedFills(n) ==
  IF hasValue("fills", n) /\ Len(n.fills) > 0
  THEN [i \in DOMAIN n.fills |-> parsePaint(n.fills[i], Num(i - 1))]
  ELSE <<>>

\* n.children.filter(isVisible), when n has children
VisibleChildren(n) ==
  IF hasValue("children", n) /\ Len(n.children) > 0 THEN SelectSeq(n.children, isVisible)
  ELSE <<>>

RECURSIVE parseNode(_, _)
parseNode(n, parent) ==
  SimplifiedNodeOf(n, ParsedFills(n), buildSimplifiedStrokes(n), buildSimplifiedEffects(n),
                   buildSimplifiedLayout(n, parent),
                   [i \in DOMAIN VisibleChildren(n) |-> parseNode(VisibleChildren(n)[i], n)])

\* sanitizeComponents and sanitizeComponentSets are not in the repository's
\* source: each catalog entry is taken over as an object under its id
sanitizeComponents(aggregated) ==
  [id \in DOMAIN aggregated |->
     Obj([f \in {"id", "key", "name"} |->
           IF f = "id" THEN Str(id) ELSE Str(aggregated[id][f])])]

\* Object.assign over the responses of a GetFileNodesResponse, in order
RECURSIVE AssignAll(_, _)
AssignAll(responses, field) ==
  IF Len(responses) = 0 THEN EmptyObj
  ELSE LET last == responses[Len(responses)]
           before == AssignAll(SubSeq(responses, 1, Len(responses) - 1), field)
       IN IF field \in DOMAIN last
          THEN [id \in DOMAIN before \cup DOMAIN last[field] |->
                  IF id \in DOMAIN last[field] THEN last[field][id] ELSE before[id]]
          ELSE before

\* the nodes parseFigmaResponse parses
NodesToParse(data) ==
  IF "nodes" \in DOMAIN data THEN [i \in DOMAIN data.nodes |-> data.nodes[i].document]
  ELSE data.document.children

\* the design parseFigmaResponse returns for the parsed top-level nodes
SimplifiedDesignOf(data, simplifiedNodes) ==
  LET byNode == "nodes" \in DOMAIN data
      aggregatedComponents == IF byNode THEN AssignAll(data.nodes, "components")
                              ELSE data.components
      aggregatedComponentSets == IF byNode THEN AssignAll(data.nodes, "componentSets")
                                 ELSE data.componentSets
      simplifiedDesign ==
        Obj([k \in {"name", "lastModified", "thumbnailUrl", "nodes", "components", "componentSets"} |->
              CASE k = "name" -> Str(data.name)
                [] k = "lastModified" -> Str(data.lastModified)
                [] k = "thumbnailUrl" ->
                     IF "thumbnailUrl" \in DOMAIN data THEN Str(data.thumbnailUrl) ELSE Str("")
                [] k = "nodes" -> Arr(simplifiedNodes)
                [] k = "components" -> Obj(sanitizeComponents(aggregatedComponents))
                [] k = "componentSets" -> Obj(sanitizeComponents(aggregatedComponentSets))])
  IN IF FirstThrow(simplifiedNodes) # Undef THEN FirstThrow(simplifiedNodes)
     ELSE removeEmptyKeys(simplifiedDesign)

\* the visible nodes among those parseFigmaResponse parses
VisibleNodes(data) == SelectSeq(NodesToParse(data), isVisible)

parseFigmaResponse(data) ==
  SimplifiedDesignOf(data, [i \in DOMAIN VisibleNodes(data) |-> parseNode(VisibleNodes(data)[i], Undef)])

\* getFigmaDataCommand once the design is fetched: the line it prints and
\* its exit status; the YAML text is the value it dumps
getFigmaDataOutput(file) ==
  IF IsThrow(file)
    THEN [stream |-> "stderr", text |-> [error |-> file.msg], exit |-> 1]
  ELSE IF "components" \notin DOMAIN file.o \/ "componentSets" \notin DOMAIN file.o
    THEN [stream |-> "stderr",
          text |-> [error |-> "Cannot convert undefined or null to object"], exit |-> 1]
  ELSE LET top == [k \in {"file", "nodes"} |->
                     IF k = "file"
                     THEN Obj([f \in DOMAIN file.o \ {"nodes", "components", "componentSets"} |->
                                file.o[f]])
                     ELSE Get(file.o, "nodes")]
           withComponents == IF DOMAIN file.o.components.o # {}
                             THEN Put(top, "components", file.o.components) ELSE top
           withSets == IF DOMAIN file.o.componentSets.o # {}
                       THEN Put(withComponents, "componentSets", file.o.componentSets)
                       ELSE withComponents
       IN [stream |-> "stdout", text |-> [yaml |-> Obj(withSets)], exit |-> 0]

(***************************************************************************)
(* Inputs of parseFigmaResponse: every forest of at most MaxNodes nodes    *)
(* over the node labels below; a node's id is its path in the forest.      *)
(***************************************************************************)
MaxNodes == 3

Red == [r |-> One, g |-> Rat(0, 1), b |-> Rat(0, 1), a |-> One]

NodeLabels ==
  { [name |-> "Page", type |-> "FRAME"],
    [name |-> "Page", type |-> "FRAME", visible |-> TRUE],
    [name |-> "Hidden", type |-> "GROUP", visible |-> FALSE],
    [name |-> "Icon", type |-> "VECTOR"],
    [name |-> "Icon", type |-> "VECTOR", visible |-> FALSE],
    [name |-> "Title", type |-> "TEXT", characters |-> "Hi",
     style |-> [fontFamily |-> "Inter", fontSize |-> 16, lineHeightPx |-> 24]],
    [name |-> "Card", type |-> "INSTANCE", componentId |-> "7:1", opacity |-> 50,
     cornerRadius |-> 4,
     fills |-> <<[type |-> "SOLID", color |-> Red],
                 [type |-> "IMAGE", imageRef |-> Str("img1"), scaleMode |-> "fill"]>>] }

RECURSIVE LabelledForests(_, _)
\* the forests of exactly n nodes labelled from labels, a node being [label, children]
LabelledForests(labels, n) ==
  IF n = 0 THEN {<<>>}
  ELSE UNION {
         {<<[label |-> l, children |-> kids]>> \o rest :
            l \in labels, kids \in LabelledForests(labels, k - 1),
            rest \in LabelledForests(labels, n - k)}
         : k \in 1..n}

ForestsOfSize(n) == LabelledForests(NodeLabels, n)

RECURSIVE RawForest(_, _)
\* the raw nodes of a labelled forest; nodes of a leaf type have no children key
RawForest(forest, prefix) ==
  [i \in DOMAIN forest |->
     LET id == prefix \o NatStr(i)
         kids == RawForest(forest[i].children, id \o ":")
         keys == DOMAIN forest[i].label \cup {"id"}
                   \cup (IF Len(kids) = 0 /\ forest[i].label.type \in {"VECTOR", "TEXT"}
                         THEN {} ELSE {"children"})
     IN [k \in keys |-> CASE k = "id" -> id
                          [] k = "children" -> kids
                          [] OTHER -> forest[i].label[k]]]

RawForests == {RawForest(f, "") : f \in UNION {ForestsOfSize(n) : n \in 0..MaxNodes}}

Catalog == Put(EmptyObj, "7:1", [key |-> "k71", name |-> "Card"])

\* a GetFileResponse without components, and a GetFileNodesResponse whose
\* node responses each carry the component catalog
ResponsesOf(forests) ==
  {[name |-> "Design", lastModified |-> "2025-01-01", thumbnailUrl |-> "https://t",
    document |-> [children |-> f], components |-> EmptyObj, componentSets |-> EmptyObj] :
     f \in forests}
  \cup
  {[name |-> "Design", lastModified |-> "2025-01-01",
    nodes |-> [i \in DOMAIN f |-> [document |-> f[i], components |-> Catalog,
                                   componentSets |-> Catalog]]] :
     f \in forests}

ApiResponses == ResponsesOf(RawForests)

ParseCalls == {[fn |-> "parseFigmaResponse", data |-> d] : d \in ApiResponses}

\* trees whose nodes carry fills, some with a paint of a type the API may add
FillLabels ==
  { [name |-> "Page", type |-> "FRAME"],
    [name |-> "Hidden", type |-> "GROUP", visible |-> FALSE],
    [name |-> "Plain", type |-> "RECTANGLE", fills |-> <<[type |-> "SOLID", color |-> Red]>>],
    [name |-> "Clip", type |-> "RECTANGLE",
     fills |-> <<[type |-> "SOLID", color |-> Red], [type |-> "VIDEO"]>>],
    [name |-> "Ghost", type |-> "RECTANGLE", visible |-> FALSE,
     fills |-> <<[type |-> "EMOJI"]>>] }

FillForests ==
  {RawForest(f, "") : f \in UNION {LabelledForests(FillLabels, n) : n \in 0..MaxNodes}}

FillCalls == {[fn |-> "parseFigmaResponse", data |-> d] : d \in ResponsesOf(FillForests)}

UnknownPaintCalls == {[fn |-> "parsePaint", raw |-> p] : p \in UnknownPaints}

(***************************************************************************)
(* limitNodeDepth, on an array of simplified nodes                         *)
(***************************************************************************)
\* o with an empty array left under key k
DeleteEmptying(o, k) == IF k \in DOMAIN o THEN Put(o, k, Arr(<<>>)) ELSE o

\* o without key k (delete o[k])
Delete(o, k) == [x \in (DOMAIN o) \ {k} |-> o[x]]

RECURSIVE limitNodeDepthKeepingKey(_, _, _)
\* limitNodeDepth without the `delete limitedNode.children` of the last layer
limitNodeDepthKeepingKey(nodes, maxLayers, currentLayer) ==
  IF currentLayer > maxLayers THEN <<>>
  ELSE [i \in DOMAIN nodes |->
         LET node == nodes[i].o
         IN IF "children" \in DOMAIN node /\ Len(node.children.a) > 0
            THEN Obj(Put(node, "children",
                         Arr(limitNodeDepthKeepingKey(node.children.a, maxLayers, currentLayer + 1))))
            ELSE Obj(node)]

RECURSIVE limitNodeDepthReversing(_, _, _)
\* limitNodeDepth returning every array in reverse order
limitNodeDepthReversing(nodes, maxLayers, currentLayer) ==
  IF currentLayer > maxLayers THEN <<>>
  ELSE [i \in DOMAIN nodes |->
         LET node == nodes[Len(nodes) + 1 - i].o
         IN IF currentLayer = maxLayers THEN Obj(Delete(node, "children"))
            ELSE IF "children" \in DOMAIN node /\ Len(node.children.a) > 0
            THEN Obj(Put(node, "children",
                         Arr(limitNodeDepthReversing(node.children.a, maxLayers, currentLayer + 1))))
            ELSE Obj(node)]

RECURSIVE limitNodeDepth(_, _, _)
limitNodeDepth(nodes, maxLayers, currentLayer) ==
  IF currentLayer > maxLayers THEN <<>>
  ELSE [i \in DOMAIN nodes |->
         LET node == nodes[i].o
         IN IF currentLayer = maxLayers THEN Obj(Delete(node, "children"))
            ELSE IF "children" \in DOMAIN node /\ Len(node.children.a) > 0
            THEN Obj(Put(node, "children",
                         Arr(limitNodeDepth(node.children.a, maxLayers, currentLayer + 1))))
            ELSE Obj(node)]

(***************************************************************************)
(* limitNodeDepth on objects held by reference.  A cell of the heap is an  *)
(* array [a |-> references] or an object [o |-> fields]; the children      *)
(* field of an object is the reference of its array.                       *)
(***************************************************************************)
RECURSIVE AllocArray(_, _, _)
\* the heap after the nodes are allocated behind `cells`, and the reference
\* of their array
AllocArray(cells, nodes, refs) ==
  IF nodes = <<>> THEN [cells |-> Append(cells, [a |-> refs]), ref |-> Len(cells) + 1]
  ELSE LET node == Head(nodes).o
       IN IF "children" \in DOMAIN node
          THEN LET kids == AllocArray(cells, node.children.a, <<>>)
               IN AllocArray(Append(kids.cells, [o |-> Put(node, "children", kids.ref)]),
                             Tail(nodes), Append(refs, Len(kids.cells) + 1))
          ELSE AllocArray(Append(cells, [o |-> node]), Tail(nodes), Append(refs, Len(cells) + 1))

\* the heap a caller holds the nodes in
HeapOf(nodes) ==
  [cells |-> AllocArray(<<>>, nodes, <<>>).cells, nodes |-> AllocArray(<<>>, nodes, <<>>).ref,
   returned |-> 0]

RECURSIVE ReadArray(_, _)
\* the value of the array behind a reference
ReadArray(cells, ref) ==
  [i \in DOMAIN cells[ref].a |->
     LET node == cells[cells[ref].a[i]].o
     IN IF "children" \in DOMAIN node
        THEN Obj(Put(node, "children", Arr(ReadArray(cells, node.children))))
        ELSE Obj(node)]

\* const limitedNode = node
AliasNode(cells, ref) == [cells |-> cells, ref |-> ref]

\* const limitedNode = { ...node }
CloneNode(cells, ref) == [cells |-> Append(cells, cells[ref]), ref |-> Len(cells) + 1]

RECURSIVE limitNodeDepthOnHeap(_, _, _, _)
RECURSIVE MapNodes(_, _, _, _, _)
\* limitNodeDepth(nodes, maxLayers, currentLayer): the heap it leaves and
\* the reference of the array it returns
limitNodeDepthOnHeap(cells, nodes, maxLayers, currentLayer) ==
  IF currentLayer > maxLayers
  THEN [cells |-> Append(cells, [a |-> <<>>]), ref |-> Len(cells) + 1]
  ELSE MapNodes(cells, cells[nodes].a, maxLayers, currentLayer, <<>>)

\* nodes.map(node => ...) from the node at the head of `refs` on
MapNodes(cells, refs, maxLayers, currentLayer, out) ==
  IF refs = <<>> THEN [cells |-> Append(cells, [a |-> out]), ref |-> Len(cells) + 1]
  ELSE LET cloned == CloneNode(cells, Head(refs))
           node == cloned.cells[Head(refs)].o
       IN IF currentLayer = maxLayers
          THEN MapNodes([cloned.cells EXCEPT ![cloned.ref] = [o |-> Delete(@.o, "children")]],
                        Tail(refs), maxLayers, currentLayer, Append(out, cloned.ref))
          ELSE IF "children" \in DOMAIN node /\ Len(cloned.cells[node.children].a) > 0
          THEN LET sub == limitNodeDepthOnHeap(cloned.cells, node.children, maxLayers,
                                               currentLayer + 1)
               IN MapNodes([sub.cells EXCEPT ![cloned.ref] = [o |-> Put(@.o, "children", sub.ref)]],
                           Tail(refs), maxLayers, currentLayer, Append(out, cloned.ref))
          ELSE MapNodes(cloned.cells, Tail(refs), maxLayers, currentLayer, Append(out, cloned.ref))

RECURSIVE AllocRaw(_, _, _)
\* the raw nodes of an API response as the caller holds them: one cell for
\* every node and one for every children array
AllocRaw(cells, nodes, refs) ==
  IF nodes = <<>> THEN [cells |-> Append(cells, [a |-> refs]), ref |-> Len(cells) + 1]
  ELSE LET node == Head(nodes)
       IN IF "children" \in DOMAIN node
          THEN LET kids == AllocRaw(cells, node.children, <<>>)
               IN AllocRaw(Append(kids.cells, [o |-> [node EXCEPT !.children = kids.ref]]),
                           Tail(nodes), Append(refs, Len(kids.cells) + 1))
          ELSE AllocRaw(Append(cells, [o |-> node]), Tail(nodes), Append(refs, Len(cells) + 1))

\* a heap with the cells and the array an allocation left
HeapHolding(allocated, returned) ==
  [cells |-> allocated.cells, nodes |-> allocated.ref, returned |-> returned]

\* the heap a caller of parseFigmaResponse holds the raw nodes in
RawHeapOf(nodes) == HeapHolding(AllocRaw(<<>>, nodes, <<>>), 0)

\* the heap once parseFigmaResponse has built the simplified nodes
HeapParsed(before, parsed) == [before EXCEPT !.cells = parsed.cells, !.returned = parsed.ref]

\* const simplified = n: the fields of the simplified node added to the raw one
AliasSimplified(cells, ref, own) ==
  [cells |-> [cells EXCEPT ![ref] = [o |-> [k \in DOMAIN @.o \cup DOMAIN own |->
                                             IF k \in DOMAIN @.o THEN @.o[k] ELSE own[k]]]],
   ref |-> ref]

\* const simplified = { id, name, type } and the assignments to its fields
NewSimplified(cells, ref, own) ==
  [cells |-> Append(cells, [o |-> own]), ref |-> Len(cells) + 1]

RECURSIVE parseNodesOnHeap(_, _, _)
\* simplified.children = children, when children.length, and the rest of the map
LinkChildren(children, simplified, refs, out) ==
  parseNodesOnHeap(IF Len(children.cells[children.ref].a) > 0
                   THEN [children.cells EXCEPT ![simplified] = [o |-> Put(@.o, "children", children.ref)]]
                   ELSE children.cells,
                   Tail(refs), Append(out, simplified))

\* parseNode from the children of n on, for the simplified node just made
ParseChildrenOnHeap(simplified, n, refs, out) ==
  IF hasValue("children", n) /\ Len(simplified.cells[n.children].a) > 0
  THEN LinkChildren(parseNodesOnHeap(simplified.cells, simplified.cells[n.children].a, <<>>),
                    simplified.ref, refs, out)
  ELSE parseNodesOnHeap(simplified.cells, Tail(refs), Append(out, simplified.ref))

\* nodes.filter(isVisible).map(parseNode) from the node at the head of
\* `refs` on: the heap it leaves and the reference of the array it returns
parseNodesOnHeap(cells, refs, out) ==
  IF refs = <<>> THEN [cells |-> Append(cells, [a |-> out]), ref |-> Len(cells) + 1]
  ELSE IF ~isVisible(cells[Head(refs)].o) THEN parseNodesOnHeap(cells, Tail(refs), out)
  ELSE ParseChildrenOnHeap(
         NewSimplified(cells, Head(refs),
                       SimplifiedNodeOf(cells[Head(refs)].o, ParsedFills(cells[Head(refs)].o),
                                        buildSimplifiedStrokes(cells[Head(refs)].o),
                                        buildSimplifiedEffects(cells[Head(refs)].o),
                                        buildSimplifiedLayout(cells[Head(refs)].o, Undef), <<>>).o),
         cells[Head(refs)].o, refs, out)

MaxTreeNodes == 4

MaxLayers == 3

RECURSIVE TreeShapes(_)
\* the forests of exactly n nodes, a node being [type, children]
TreeShapes(n) ==
  IF n = 0 THEN {<<>>}
  ELSE UNION {
         {<<[type |-> t, children |-> kids]>> \o rest :
            t \in {"FRAME", "TEXT"}, kids \in TreeShapes(k - 1), rest \in TreeShapes(n - k)}
         : k \in 1..n}

RECURSIVE SimplifiedForest(_, _)
\* the simplified nodes of a shape; a childless FRAME has an empty children
\* array, a childless TEXT no children key
SimplifiedForest(shape, prefix) ==
  [i \in DOMAIN shape |->
     LET id == prefix \o NatStr(i)
         kids == SimplifiedForest(shape[i].children, id \o ":")
         keys == {"id", "name", "type"}
                   \cup (IF Len(kids) = 0 /\ shape[i].type = "TEXT" THEN {} ELSE {"children"})
     IN Obj([k \in keys |-> CASE k = "id" -> Str(id)
                              [] k = "name" -> Str("Layer " \o id)
                              [] k = "type" -> Str(shape[i].type)
                              [] k = "children" -> Arr(kids)])]

SimplifiedForests == {SimplifiedForest(f, "") : f \in UNION {TreeShapes(n) : n \in 0..MaxTreeNodes}}

DepthCalls ==
  {[fn |-> "limitNodeDepth", nodes |-> f, maxLayers |-> m] :
     f \in SimplifiedForests, m \in 1..MaxLayers}

(***************************************************************************)
(* downloadImagesCommand and downloadFigmaImage.  A node to download is    *)
(* [nodeId, fileName, imageRef?]; a file name is a stem and an extension.  *)
(* What the network and the image hold is part of the call: for each node  *)
(* whether the download answers ok and whether the bytes decode.  An image *)
(* job is at "fetch", "process", "write", "resolved" or "rejected".        *)
(***************************************************************************)
\* the file name of a render request: svg unless the name ends in .svg or .png
FinalFileName(fileName) ==
  IF fileName.ext = ".svg" THEN fileName
  ELSE IF fileName.ext = ".png" THEN fileName
  ELSE [stem |-> fileName.stem \o fileName.ext, ext |-> ".svg"]

\* path.join(localPath, fileName)
FullPath(localPath, fileName) == localPath \o "/" \o fileName.stem \o fileName.ext

\* options.imageProcessing?.enabled ? { mode, width, ... } : undefined, as the
\* set of jobs' option records (empty for undefined)
ImageProcessingOptionsOf(options) ==
  IF "imageProcessing" \in DOMAIN options /\ "enabled" \in DOMAIN options.imageProcessing
       /\ options.imageProcessing.enabled
  THEN {[k \in DOMAIN options.imageProcessing \ {"enabled"} |-> options.imageProcessing[k]]}
  ELSE {}

\* !!imageRef
HasImageRef(node) == "imageRef" \in DOMAIN node /\ node.imageRef # ""

\* options.nodes.filter(({ imageRef }) => !!imageRef)
ImageFills(nodes) == SelectSeq(nodes, HasImageRef)

\* the file type of a render request with every name rendered as svg
FileTypeSvg(fileName) == "svg"

\* the file type of a render request: png for a name ending in .png, else svg
FileType(fileName) ==
  IF fileName.ext = ".svg" THEN "svg"
  ELSE IF fileName.ext = ".png" THEN "png"
  ELSE "svg"

\* options.nodes.filter(({ imageRef }) => !imageRef).map(...)
RenderRequests(nodes) ==
  LET rest == SelectSeq(nodes, LAMBDA node : ~HasImageRef(node))
  IN [i \in DOMAIN rest |->
       [nodeId |-> rest[i].nodeId, fileName |-> FinalFileName(rest[i].fileName),
        fileType |-> FileType(rest[i].fileName)]]

\* the image jobs the two batches start: the fills first, then the render
\* requests, each a downloadFigmaImage call
ImageJobs(options, remote) ==
  LET requests == ImageFills(options.nodes) \o RenderRequests(options.nodes)
  IN [j \in DOMAIN requests |->
       [batch |-> IF j <= Len(ImageFills(options.nodes)) THEN "fill" ELSE "render",
        request |-> requests[j],
        fileName |-> requests[j].fileName.stem \o requests[j].fileName.ext,
        fullPath |-> FullPath(options.localPath, requests[j].fileName),
        remote |-> remote[CHOOSE i \in DOMAIN options.nodes :
                            options.nodes[i].nodeId = requests[j].nodeId],
        processingOptions |-> ImageProcessingOptionsOf(options),
        at |-> "fetch",
        buffer |-> Undef,
        value |-> Undef]]

\* processingOptions && processingOptions.mode && (width || height)
WantsProcessing(job) ==
  \E po \in job.processingOptions :
    "mode" \in DOMAIN po /\ (Truthy(po, "width") \/ Truthy(po, "height"))

\* await processImageBuffer(imageBuffer, imageProcessingOptions): the image
\* library fails on bytes it cannot decode
Processed(job) ==
  LET po == CHOOSE po \in job.processingOptions : TRUE
  IN IF job.remote.corrupt THEN Throw("Input buffer contains unsupported image format")
     ELSE processImageBuffer(job.remote.metadata, po)

Failed(processed) == "t" \in DOMAIN processed /\ processed.t = "throw"

\* the buffer written with no catch around the processing
FinalBufferUnguarded(imageBuffer, processed) == processed

\* try { finalBuffer = await processImageBuffer(..) } catch { finalBuffer = imageBuffer }
FinalBuffer(imageBuffer, processed) == IF Failed(processed) THEN imageBuffer ELSE processed

\* what a batch collects once its jobs have settled: the path of a job that
\* resolved, an empty string for a job that failed
CollectSettled(settled) ==
  [j \in DOMAIN settled |-> IF settled[j].at = "resolved" THEN settled[j].value ELSE ""]

\* saveSuccess with some truthy result in place of no falsy result
SaveSuccessAny(downloads) == \E j \in DOMAIN downloads : downloads[j] # ""

\* !downloads.find((success) => !success)
SaveSuccess(downloads) == ~\E j \in DOMAIN downloads : downloads[j] = ""

\* the lines the command prints once the downloads are collected, and its exit status
Report(downloads) ==
  IF SaveSuccess(downloads)
  THEN [lines |-> <<[stream |-> "stderr",
                     text |-> "Successfully downloaded " \o NatStr(Len(downloads)) \o " images"],
                    [stream |-> "stdout", text |-> "Downloaded: " \o Join(downloads, ", ")]>>,
        exit |-> 0]
  ELSE [lines |-> <<[stream |-> "stderr", text |-> "Some downloads failed"]>>, exit |-> 1]

MaxJobs == 2

DownloadNodes ==
  UNION {[1..n -> {"fill", "render", "png", "svg"}] : n \in 0..MaxJobs}

Remotes == [ok : BOOLEAN, corrupt : BOOLEAN]

ImageProcessingChoices ==
  { [enabled |-> TRUE, mode |-> "FIT", width |-> 2],
    [enabled |-> TRUE, mode |-> "STRETCH", width |-> 2],
    [enabled |-> TRUE, mode |-> "CROP"],
    [enabled |-> FALSE, mode |-> "FILL", width |-> 2, height |-> 2] }

\* the node of each kind: an image fill, a render of a name without .svg or
\* .png (no extension and an empty imageRef, or .jpg), a png and an svg render
DownloadNode(kind, i) ==
  CASE kind = "fill" -> [nodeId |-> NatStr(i) \o ":1", imageRef |-> "ref" \o NatStr(i),
                         fileName |-> [stem |-> "img" \o NatStr(i), ext |-> ".png"]]
    [] kind = "render" /\ i = 1 -> [nodeId |-> NatStr(i) \o ":1", imageRef |-> "",
                                    fileName |-> [stem |-> "icon" \o NatStr(i), ext |-> ""]]
    [] kind = "render" /\ i # 1 -> [nodeId |-> NatStr(i) \o ":1",
                                    fileName |-> [stem |-> "photo" \o NatStr(i), ext |-> ".jpg"]]
    [] kind = "png" -> [nodeId |-> NatStr(i) \o ":1",
                        fileName |-> [stem |-> "shot" \o NatStr(i), ext |-> ".png"]]
    [] kind = "svg" -> [nodeId |-> NatStr(i) \o ":1",
                        fileName |-> [stem |-> "logo" \o NatStr(i), ext |-> ".svg"]]

\* what the network answers for each node
RemoteOf(r, i) ==
  [ok |-> r[i].ok, corrupt |-> r[i].corrupt, bytes |-> "bytes" \o NatStr(i),
   metadata |-> [width |-> 4, height |-> 3, format |-> "png"]]

DownloadCalls ==
  {[fn |-> "downloadImagesCommand",
    options |-> [fileKey |-> "F", localPath |-> "out",
                 nodes |-> [i \in DOMAIN kinds |-> DownloadNode(kinds[i], i)]],
    remote |-> [i \in DOMAIN kinds |-> RemoteOf(r, i)]] :
     kinds \in DownloadNodes, r \in [1..MaxJobs -> Remotes]}
  \cup
  {[fn |-> "downloadImagesCommand",
    options |-> [fileKey |-> "F", localPath |-> "out", imageProcessing |-> ip,
                 nodes |-> [i \in DOMAIN kinds |-> DownloadNode(kinds[i], i)]],
    remote |-> [i \in DOMAIN kinds |-> RemoteOf(r, i)]] :
     kinds \in DownloadNodes, r \in [1..MaxJobs -> Remotes], ip \in ImageProcessingChoices}

(***************************************************************************)
(* The get_figma_data tool and the figma:// resources of the MCP server.   *)
(* Keys and URIs are sequences of characters.  The design the Figma        *)
(* service answers with is part of the request.                            *)
(***************************************************************************)
\* `${fileKey}${nodeId ? `-${nodeId}` : ''}${depth ? `-depth${depth}` : ''}`
ResultKey(args) ==
  args.fileKey
    \o (IF "nodeId" \in DOMAIN args /\ args.nodeId # <<>> THEN <<"-">> \o args.nodeId ELSE <<>>)
    \o (IF Truthy(args, "depth") THEN <<"-", "d", "e", "p", "t", "h", Digit(args.depth)>>
        ELSE <<>>)

\* `figma://${resultKey}`
ResourceUri(key) == <<"f", "i", "g", "m", "a", ":", "/", "/">> \o key

\* JSON.stringify(value): the text that parses back to value
Json(value) == [json |-> value]

\* the result object get_figma_data builds from the fetched design
FigmaDataResult(file, args) ==
  LET fileInfo == [k \in DOMAIN file \ {"nodes", "components", "componentSets"} |-> file[k]]
      limited == IF Truthy(args, "depth")
                 THEN [warning |-> "Layout with limited depth is incomplete.",
                       depth_info |-> [current_api_depth |-> args.depth,
                                       recommended_api_depth |-> "unlimited (remove depth parameter)"]]
                 ELSE EmptyObj
      withNodes == Put(Put(limited, "file", fileInfo), "nodes", file.nodes)
      withComponents == IF DOMAIN file.components # {}
                        THEN Put(withNodes, "components", file.components) ELSE withNodes
  IN IF DOMAIN file.componentSets # {}
     THEN Put(withComponents, "componentSets", file.componentSets) ELSE withComponents

\* figmaDataStore.set(resultKey, entry)
StoreSet(map, key, entry) == [k \in DOMAIN map \cup {key} |-> IF k = key THEN entry ELSE map[k]]

\* the catch of the handler with the store emptied
FetchFailedClearing(map, fetched) ==
  [store |-> EmptyObj,
   answer |-> [isError |-> TRUE, text |-> "Error fetching file: " \o fetched.error]]

\* the catch of the handler: the fetch threw before anything was stored
FetchFailed(map, fetched) ==
  [store |-> map,
   answer |-> [isError |-> TRUE, text |-> "Error fetching file: " \o fetched.error]]

\* the answer of the get_figma_data handler and the store it leaves
GetFigmaDataTool(map, args, fetched) ==
  IF "error" \in DOMAIN fetched THEN FetchFailed(map, fetched)
  ELSE LET toolResult == FigmaDataResult(fetched, args)
           resultKey == ResultKey(args)
           entry == [data |-> Json(toolResult), originalFormat |-> "yaml",
                     metadata |-> [k \in (DOMAIN args \ {"direct"}) \cup {"fileName"} |->
                                     IF k = "fileName" THEN fetched.name ELSE args[k]]]
       IN [store |-> StoreSet(map, resultKey, entry),
           answer |-> IF args.direct THEN [isError |-> FALSE, data |-> toolResult]
                      ELSE [isError |-> FALSE, resource |-> ResourceUri(resultKey)]]

\* the URL the read callback is handed for figma://<host>[:<port>], as its
\* toString() prints it; the URL parser rejects a port that is no number up
\* to 65535 and prints a port without leading zeros
UrlToString(uri) ==
  LET RECURSIVE PortNumber(_)
      PortNumber(cs) == IF cs = <<>> THEN 0
                        ELSE 10 * PortNumber(SubSeq(cs, 1, Len(cs) - 1))
                               + (CHOOSE d \in 0..9 : Digit(d) = cs[Len(cs)])
      RECURSIVE NatChars(_)
      NatChars(n) == IF n < 10 THEN <<Digit(n)>> ELSE NatChars(n \div 10) \o <<Digit(n % 10)>>
      colons == {i \in 9..Len(uri) : uri[i] = ":"}
  IN IF Len(uri) < 8 \/ SubSeq(uri, 1, 8) # ResourceUri(<<>>) THEN Ok(uri)
     ELSE IF colons = {} THEN Ok(uri)
     ELSE LET at == CHOOSE i \in colons : \A j \in colons : i <= j
              port == SubSeq(uri, at + 1, Len(uri))
          IN IF at = 9 THEN Threw("TypeError: Invalid URL")
             ELSE IF port = <<>> THEN Ok(SubSeq(uri, 1, at - 1))
             ELSE IF \E i \in DOMAIN port : \A d \in 0..9 : Digit(d) # port[i]
               THEN Threw("TypeError: Invalid URL")
             ELSE IF PortNumber(port) > 65535 THEN Threw("TypeError: Invalid URL")
             ELSE Ok(SubSeq(uri, 1, at) \o NatChars(PortNumber(port)))

\* the read callback of the figma resource template
ReadFigmaResource(map, url) ==
  IF url.threw THEN Throw(url.v)
  ELSE LET uriString == url.v
       IN IF Len(uriString) <= 8 \/ SubSeq(uriString, 1, 8) # ResourceUri(<<>>)
            THEN Throw("Invalid Figma resource URI")
          ELSE LET key == SubSeq(uriString, 9, Len(uriString))
               IN IF key \notin DOMAIN map THEN Throw("Resource not found")
                  ELSE [contents |-> <<[uri |-> uriString, mimeType |-> "application/json",
                                        text |-> map[key].data]>>]

\* how many tool calls a session makes
MaxRequests == 2

ToolArguments ==
  {[fileKey |-> <<"F">>, direct |-> d] : d \in BOOLEAN}
    \cup {[fileKey |-> <<"F", "-", "1">>, direct |-> FALSE]}
    \cup {[fileKey |-> <<"F">>, nodeId |-> id, direct |-> FALSE] :
            id \in {<<"1">>, <<"1", ":", "2">>, <<"1", ":", "7", "0", "0", "0", "0">>}}
    \cup {[fileKey |-> <<"F">>, depth |-> n, direct |-> FALSE] : n \in {0, 2}}
    \cup {[fileKey |-> <<"F">>, nodeId |-> <<"1", ":", "2">>, depth |-> 2, direct |-> FALSE]}

\* what the Figma service answers: a design, another version of it, or an error
Fetched ==
  { [name |-> "v1", lastModified |-> "2025-01-01", thumbnailUrl |-> "",
     nodes |-> <<>>, components |-> EmptyObj, componentSets |-> EmptyObj],
    [name |-> "v2", lastModified |-> "2025-02-02", thumbnailUrl |-> "",
     nodes |-> <<[id |-> "1:1", name |-> "Page", type |-> "FRAME"]>>,
     components |-> Catalog, componentSets |-> EmptyObj],
    [error |-> "Forbidden"] }

ResourceUris ==
  {ResourceUri(ResultKey(args)) : args \in ToolArguments}
    \cup {ResourceUri(<<>>), ResourceUri(<<"G">>), <<"h", "t", "t", "p", ":", "/", "/", "F">>}

(***************************************************************************)
(* The server variant that takes its mode from the process environment and *)
(* hooks figmaDataStore.set to publish the stored keys.  The environment   *)
(* is a record of the variables that are set; `order` is the insertion     *)
(* order of the store, `registered` the resources the server holds, and    *)
(* `duplicates` what the server does with a URI it already holds.          *)
(***************************************************************************)
detectEnvironment(env) ==
  IF "MCP_MODE" \in DOMAIN env /\ env.MCP_MODE = "desktop" THEN "desktop"
  ELSE IF "MCP_MODE" \in DOMAIN env /\ env.MCP_MODE = "code" THEN "code"
  ELSE IF "CLAUDE_CODE_VERSION" \in DOMAIN env /\ env.CLAUDE_CODE_VERSION # "" THEN "code"
  ELSE IF ("CLAUDE_DESKTOP" \in DOMAIN env /\ env.CLAUDE_DESKTOP # "")
            \/ ("ANTHROPIC_DESKTOP" \in DOMAIN env /\ env.ANTHROPIC_DESKTOP # "") THEN "desktop"
  ELSE "desktop"

isClaudeDesktop(env) == detectEnvironment(env) = "desktop"

\* updateResourceList: server.resource for every stored key, in insertion order
updateResourceList(registered, order, duplicates) ==
  LET RECURSIVE Walk(_, _)
      Walk(reg, i) ==
        IF i > Len(order) THEN [registered |-> reg, threw |-> FALSE]
        ELSE IF duplicates = "throw" /\ \E j \in DOMAIN reg : reg[j] = order[i]
          THEN [registered |-> reg, threw |-> TRUE]
        ELSE Walk(Append(reg, order[i]), i + 1)
  IN Walk(registered, 1)

\* the get_figma_data handler of this variant: the answer, the store and
\* the server it leaves
GetFigmaDataHookedTool(map, srv, args, fetched) ==
  IF "error" \in DOMAIN fetched
  THEN [store |-> map, server |-> srv,
        answer |-> [isError |-> TRUE, text |-> "Error fetching file: " \o fetched.error]]
  ELSE LET toolResult == FigmaDataResult(fetched, args)
           resultKey == ResultKey(args)
           entry == [data |-> Json(toolResult), originalFormat |-> "yaml",
                     metadata |-> [k \in DOMAIN args \cup {"fileName"} |->
                                     IF k = "fileName" THEN fetched.name ELSE args[k]]]
           order == IF resultKey \in DOMAIN map THEN srv.order ELSE Append(srv.order, resultKey)
           listed == updateResourceList(srv.registered, order, srv.duplicates)
           after == [srv EXCEPT !.order = order, !.registered = listed.registered]
       IN [store |-> StoreSet(map, resultKey, entry), server |-> after,
           answer |-> IF listed.threw
                        THEN [isError |-> TRUE, text |-> "Error fetching file: already registered"]
                      ELSE IF srv.desktop THEN [isError |-> FALSE, data |-> toolResult]
                      ELSE [isError |-> FALSE, resource |-> ResourceUri(resultKey)]]

Environments ==
  { EmptyObj, [MCP_MODE |-> "desktop"], [MCP_MODE |-> "code"], [MCP_MODE |-> "auto"],
    [CLAUDE_CODE_VERSION |-> "1"], [CLAUDE_DESKTOP |-> "1"], [ANTHROPIC_DESKTOP |-> "1"],
    [MCP_MODE |-> "desktop", CLAUDE_CODE_VERSION |-> "1"],
    [MCP_MODE |-> "code", CLAUDE_DESKTOP |-> "1"],
    [CLAUDE_CODE_VERSION |-> "1", CLAUDE_DESKTOP |-> "1"] }

\* the clientInfo names of the handshake
ClientNames == {"claude-ai", "test-client", "figma-test-client"}

HookedArguments ==
  { [fileKey |-> <<"F">>], [fileKey |-> <<"F">>, nodeId |-> <<"1">>],
    [fileKey |-> <<"F">>, depth |-> 2] }

(***************************************************************************)
(* The calls                                                               *)
(***************************************************************************)
\* the initialize handshake of a client with the server
Connect ==
  /\ pc = "listening"
  /\ \E name \in ClientNames :
       /\ call' = [fn |-> "initialize", clientInfo |-> [name |-> name]]
       /\ server' = [server EXCEPT !.client = name]
  /\ pc' = "serving"
  /\ UNCHANGED <<result, jobs, files, console, store, heap>>

\* a tools/call of get_figma_data on the server that hooks the store
GetFigmaDataHooked ==
  /\ pc = "serving"
  /\ Len(console) < MaxRequests
  /\ \E args \in HookedArguments, fetched \in Fetched :
       LET done == GetFigmaDataHookedTool(store, server, args, fetched)
       IN /\ call' = [fn |-> "get_figma_data", args |-> args, fetched |-> fetched]
          /\ store' = done.store
          /\ server' = done.server
          /\ result' = done.answer
          /\ console' = Append(console, [args |-> args, fetched |-> fetched, answer |-> done.answer])
  /\ UNCHANGED <<pc, jobs, files, heap>>

\* a tools/call of get_figma_data
GetFigmaData ==
  /\ pc = "serving"
  /\ Len(console) < MaxRequests
  /\ \E args \in ToolArguments, fetched \in Fetched :
       LET done == GetFigmaDataTool(store, args, fetched)
       IN /\ call' = [fn |-> "get_figma_data", args |-> args, fetched |-> fetched]
          /\ store' = done.store
          /\ result' = done.answer
          /\ console' = Append(console, [args |-> args, fetched |-> fetched, answer |-> done.answer])
  /\ UNCHANGED <<pc, jobs, files, server, heap>>

\* a resources/read of a figma:// URI
ReadResource ==
  /\ pc = "serving"
  /\ \E uri \in ResourceUris :
       /\ call' = [fn |-> "resources/read", uri |-> uri]
       /\ result' = ReadFigmaResource(store, UrlToString(uri))
  /\ UNCHANGED <<pc, jobs, files, console, store, server, heap>>

\* downloadImagesCommand up to the two batches: every image job is started
StartDownloads ==
  /\ pc = "call"
  /\ call.fn = "downloadImagesCommand"
  /\ jobs' = ImageJobs(call.options, call.remote)
  /\ console' = <<[stream |-> "stderr",
                   text |-> "Downloading " \o NatStr(Len(call.options.nodes)) \o " images from "
                              \o call.options.fileKey \o "..."]>>
  /\ pc' = "downloading"
  /\ UNCHANGED <<call, result, files, store, server, heap>>

\* downloadFigmaImage: await fetch(imageUrl), throw unless response.ok
FetchImage(j) ==
  /\ pc = "downloading"
  /\ jobs[j].at = "fetch"
  /\ jobs' = [jobs EXCEPT ![j] =
       IF jobs[j].remote.ok
       THEN [jobs[j] EXCEPT !.at = "process", !.buffer = [bytes |-> jobs[j].remote.bytes]]
       ELSE [jobs[j] EXCEPT !.at = "rejected",
                            !.value = Throw("Error downloading image: Failed to download image")]]
  /\ UNCHANGED <<pc, call, result, files, console, store, server, heap>>

\* downloadFigmaImage: the optional processing, with its fallback and warning
ProcessImage(j) ==
  /\ pc = "downloading"
  /\ jobs[j].at = "process"
  /\ IF WantsProcessing(jobs[j])
     THEN /\ jobs' = [jobs EXCEPT ![j].at = "write",
                                  ![j].buffer = FinalBuffer(jobs[j].buffer, Processed(jobs[j]))]
          /\ console' = IF Failed(Processed(jobs[j]))
                        THEN Append(console,
                               [stream |-> "warn",
                                text |-> "Image processing failed for " \o jobs[j].fileName \o ": "
                                           \o Processed(jobs[j]).msg \o ". Using original image."])
                        ELSE console
     ELSE /\ jobs' = [jobs EXCEPT ![j].at = "write"]
          /\ UNCHANGED console
  /\ UNCHANGED <<pc, call, result, files, store, server, heap>>

\* downloadFigmaImage: await writeFile(fullPath, finalBuffer); return fullPath
WriteImage(j) ==
  /\ pc = "downloading"
  /\ jobs[j].at = "write"
  /\ files' = Put(files, jobs[j].fullPath, jobs[j].buffer)
  /\ jobs' = [jobs EXCEPT ![j].at = "resolved", ![j].value = jobs[j].fullPath]
  /\ UNCHANGED <<pc, call, result, console, store, server, heap>>

\* downloadImagesCommand after `await Promise.all([fillDownloads, renderDownloads])`
ReportDownloads ==
  /\ pc = "downloading"
  /\ \A j \in DOMAIN jobs : jobs[j].at \in {"resolved", "rejected"}
  /\ LET downloads == CollectSettled(jobs)
     IN /\ console' = console \o Report(downloads).lines
        /\ result' = [downloads |-> downloads, exit |-> Report(downloads).exit]
  /\ pc' = "done"
  /\ UNCHANGED <<call, jobs, files, store, server, heap>>

RemoveEmptyKeys ==
  /\ pc = "call"
  /\ call.fn = "removeEmptyKeys"
  /\ result' = removeEmptyKeys(call.input)
  /\ pc' = "done"
  /\ UNCHANGED <<call, world>>

ParsePaint ==
  /\ pc = "call"
  /\ call.fn = "parsePaint"
  /\ result' = parsePaint(call.raw, Undef)
  /\ pc' = "done"
  /\ UNCHANGED <<call, world>>

GenerateCSSShorthand ==
  /\ pc = "call"
  /\ call.fn = "generateCSSShorthand"
  /\ result' = generateCSSShorthand(call.values,
                  IF "ignoreZero" \in DOMAIN call.options THEN call.options.ignoreZero ELSE TRUE,
                  IF "suffix" \in DOMAIN call.options THEN call.options.suffix ELSE "px")
  /\ pc' = "done"
  /\ UNCHANGED <<call, world>>

HexToRgba ==
  /\ pc = "call"
  /\ call.fn = "hexToRgba"
  /\ result' = hexToRgba(call.hex, IF "opacity" \in DOMAIN call THEN call.opacity ELSE 100)
  /\ pc' = "done"
  /\ UNCHANGED <<call, world>>

ProcessImageBuffer ==
  /\ pc = "call"
  /\ call.fn = "processImageBuffer"
  /\ result' = processImageBuffer(call.metadata, call.options)
  /\ pc' = "done"
  /\ UNCHANGED <<call, world>>

ParseFigmaResponse ==
  /\ pc = "call"
  /\ call.fn = "parseFigmaResponse"
  /\ result' = parseFigmaResponse(call.data)
  /\ heap' = IF DOMAIN heap = {} THEN heap
             ELSE HeapParsed(heap, parseNodesOnHeap(heap.cells, heap.cells[heap.nodes].a, <<>>))
  /\ pc' = "done"
  /\ UNCHANGED <<call, jobs, files, console, store, server>>

\* getFigmaDataCommand on the design the service handed back
GetFigmaDataCommand ==
  /\ pc = "done"
  /\ call.fn = "parseFigmaResponse"
  /\ console' = <<getFigmaDataOutput(result)>>
  /\ pc' = "printed"
  /\ UNCHANGED <<call, result, jobs, files, store, server, heap>>

ValidateImageProcessingOptions ==
  /\ pc = "call"
  /\ call.fn = "validateImageProcessingOptions"
  /\ result' = validateImageProcessingOptions(call.options)
  /\ pc' = "done"
  /\ UNCHANGED <<call, world>>

LimitNodeDepth ==
  /\ pc = "call"
  /\ call.fn = "limitNodeDepth"
  /\ result' = Arr(limitNodeDepth(call.nodes, call.maxLayers, 1))
  /\ heap' = [heap EXCEPT
                !.cells = limitNodeDepthOnHeap(heap.cells, heap.nodes, call.maxLayers, 1).cells,
                !.returned = limitNodeDepthOnHeap(heap.cells, heap.nodes, call.maxLayers, 1).ref]
  /\ pc' = "done"
  /\ UNCHANGED <<call, jobs, files, console, store, server>>

InitSimplify ==
  /\ pc = "call"
  /\ call \in PruneCalls \cup ParseCalls
  /\ result = Undef
  /\ jobs = <<>> /\ files = EmptyObj /\ console = <<>> /\ store = EmptyObj /\ server = EmptyObj
  /\ heap = IF call.fn = "parseFigmaResponse" THEN RawHeapOf(NodesToParse(call.data))
            ELSE EmptyObj

NextSimplify == RemoveEmptyKeys \/ ParseFigmaResponse \/ GetFigmaDataCommand

SpecSimplify == InitSimplify /\ [][NextSimplify]_vars

InitPaint ==
  /\ pc = "call"
  /\ call \in PaintCalls
  /\ result = Undef
  /\ Quiet

NextPaint == ParsePaint

SpecPaint == InitPaint /\ [][NextPaint]_vars

InitFills ==
  /\ pc = "call"
  /\ call \in FillCalls \cup UnknownPaintCalls
  /\ result = Undef
  /\ Quiet

NextFills == ParsePaint \/ ParseFigmaResponse

SpecFills == InitFills /\ [][NextFills]_vars

InitValidate ==
  /\ pc = "call"
  /\ call \in ValidateCalls
  /\ result = Undef
  /\ Quiet

NextValidate == ValidateImageProcessingOptions

SpecValidate == InitValidate /\ [][NextValidate]_vars

InitDownload ==
  /\ pc = "call"
  /\ call \in DownloadCalls
  /\ result = Undef
  /\ Quiet

NextDownload ==
  \/ StartDownloads
  \/ \E j \in DOMAIN jobs : FetchImage(j) \/ ProcessImage(j) \/ WriteImage(j)
  \/ ReportDownloads

SpecDownload == InitDownload /\ [][NextDownload]_vars

InitResources ==
  /\ pc = "serving"
  /\ call = [fn |-> "initialize"]
  /\ result = Undef
  /\ Quiet

NextResources == GetFigmaData \/ ReadResource

SpecResources == InitResources /\ [][NextResources]_vars

InitHooked ==
  /\ pc = "listening"
  /\ call = [fn |-> "createServer"]
  /\ result = Undef
  /\ jobs = <<>> /\ files = EmptyObj /\ console = <<>> /\ store = EmptyObj /\ heap = EmptyObj
  /\ \E env \in Environments, duplicates \in {"throw", "replace"} :
       server = [env |-> env, desktop |-> isClaudeDesktop(env), client |-> "",
                 order |-> <<>>, registered |-> <<>>, duplicates |-> duplicates]

NextHooked == Connect \/ GetFigmaDataHooked

SpecHooked == InitHooked /\ [][NextHooked]_vars

InitDepth ==
  /\ pc = "call"
  /\ call \in DepthCalls
  /\ result = Undef
  /\ jobs = <<>> /\ files = EmptyObj /\ console = <<>> /\ store = EmptyObj /\ server = EmptyObj
  /\ heap = HeapOf(call.nodes)

NextDepth == LimitNodeDepth

SpecDepth == InitDepth /\ [][NextDepth]_vars

InitCss ==
  /\ pc = "call"
  /\ call \in ShorthandCalls \cup HexCalls
  /\ result = Undef
  /\ Quiet

NextCss == GenerateCSSShorthand \/ HexToRgba

SpecCss == InitCss /\ [][NextCss]_vars

InitImage ==
  /\ pc = "call"
  /\ call \in ImageCalls
  /\ result = Undef
  /\ Quiet

NextImage == ProcessImageBuffer

SpecImage == InitImage /\ [][NextImage]_vars

(***************************************************************************)
(* Properties                                                              *)
(***************************************************************************)
Done(fn) == pc = "done" /\ call.fn = fn

\* a value that may not sit under a key of a pruned object
Vacuous(v) ==
  \/ v = Undef
  \/ v = Arr(<<>>)
  \/ v = Obj(EmptyObj)

RECURSIVE NoEmptyKeys(_)
NoEmptyKeys(v) ==
  CASE v.t = "object" -> \A k \in DOMAIN v.o : ~Vacuous(v.o[k]) /\ NoEmptyKeys(v.o[k])
    [] v.t = "array" -> \A i \in DOMAIN v.a : NoEmptyKeys(v.a[i])
    [] OTHER -> TRUE

\* C2: in the value removeEmptyKeys returns, no object at any depth, array
\* elements included, has a key whose value is undefined, an empty array or
\* an empty object.
C2_PruningInvariant ==
  (pc = "done" /\ call.fn \in {"removeEmptyKeys", "parseFigmaResponse"} /\ ~IsThrow(result))
    => NoEmptyKeys(result)

C2_Witness ==
  /\ Done("removeEmptyKeys")
  /\ call.input = Arr(<<Obj(Put(EmptyObj, "a", Obj(Put(EmptyObj, "b", Arr(<<>>)))))>>)
  /\ result = Arr(<<Obj(EmptyObj)>>)

\* C3: removeEmptyKeys is idempotent: pruning its own result changes nothing.
C3_PruneIdempotent ==
  Done("removeEmptyKeys") => removeEmptyKeys(result) = result

C3_Witness ==
  /\ Done("removeEmptyKeys")
  /\ call.input = Obj(Put(Put(EmptyObj, "a", Obj(Put(EmptyObj, "b", Arr(<<>>)))), "b", Null))
  /\ result = Obj(Put(EmptyObj, "b", Null))

\* two uppercase hexadecimal digits of a channel value
Hex2(n) == UpperChar(HexDigitLower(n \div 16)) \o UpperChar(HexDigitLower(n % 16))

\* C5: a SOLID paint with colour alpha a and opacity o (1 when absent) gives,
\* with A = round(o*a*100)/100, #RRGGBB when A = 1 and otherwise an rgba()
\* string whose alpha is exactly A.
C5_SolidAlphaOnce ==
  (Done("parsePaint") /\ call.raw.type = "SOLID") =>
    LET c == call.raw.color
        o == IF "opacity" \in DOMAIN call.raw THEN call.raw.opacity ELSE One
        A == RoundDiv(o.num * c.a.num * 100, o.den * c.a.den)
        r == RoundDiv(c.r.num * 255, c.r.den)
        g == RoundDiv(c.g.num * 255, c.g.den)
        b == RoundDiv(c.b.num * 255, c.b.den)
    IN result = IF A = 100 THEN Str("#" \o Hex2(r) \o Hex2(g) \o Hex2(b))
                ELSE Str("rgba(" \o NatStr(r) \o ", " \o NatStr(g) \o ", " \o NatStr(b)
                           \o ", " \o HundredthsStr(A) \o ")")

\* a linear gradient paint whose first handle is the origin and whose stops
\* can be printed
LinearFromOrigin ==
  /\ Done("parsePaint")
  /\ call.raw.type = "GRADIENT_LINEAR"
  /\ "gradientHandlePositions" \in DOMAIN call.raw
  /\ "gradientStops" \in DOMAIN call.raw
  /\ Len(call.raw.gradientHandlePositions) >= 2
  /\ call.raw.gradientHandlePositions[1] = [x |-> 0, y |-> 0]
  /\ ~generateGradientStops(call.raw.gradientStops).threw

LinearCss(deg) ==
  Str("linear-gradient(" \o deg \o "deg, " \o generateGradientStops(call.raw.gradientStops).v \o ")")

\* C6 as stated: handles {0,0} -> {1,0} give 0deg and {0,0} -> {0,1} give 90deg.
C6_AnglesAsStated ==
  LinearFromOrigin =>
    /\ call.raw.gradientHandlePositions[2] = [x |-> 2, y |-> 0] => result = LinearCss("0")
    /\ call.raw.gradientHandlePositions[2] = [x |-> 0, y |-> 2] => result = LinearCss("90")

\* C6 amended: handles {0,0} -> {1,0} give a string starting
\* `linear-gradient(90deg,` and handles {0,0} -> {0,1} one starting
\* `linear-gradient(0deg,`.
C6_LinearAngles ==
  LinearFromOrigin =>
    /\ call.raw.gradientHandlePositions[2] = [x |-> 2, y |-> 0] => result = LinearCss("90")
    /\ call.raw.gradientHandlePositions[2] = [x |-> 0, y |-> 2] => result = LinearCss("0")

C6_Witness ==
  /\ LinearFromOrigin
  /\ call.raw.gradientHandlePositions[2] = [x |-> 2, y |-> 0]
  /\ Len(call.raw.gradientStops) = 2
  /\ result = Str("linear-gradient(90deg, rgba(0, 0, 0, 1) 0%, rgba(255, 128, 85, 0.5) 67%)")

\* the four sides a CSS shorthand of 1, 2, 3 or 4 tokens stands for
Expand(ts) ==
  CASE Len(ts) = 1 -> [top |-> ts[1], right |-> ts[1], bottom |-> ts[1], left |-> ts[1]]
    [] Len(ts) = 2 -> [top |-> ts[1], right |-> ts[2], bottom |-> ts[1], left |-> ts[2]]
    [] Len(ts) = 3 -> [top |-> ts[1], right |-> ts[2], bottom |-> ts[3], left |-> ts[2]]
    [] Len(ts) = 4 -> [top |-> ts[1], right |-> ts[2], bottom |-> ts[3], left |-> ts[4]]

Shorthands == UNION {[1..n -> Sides] : n \in 1..4}

ShorthandText(ts, suffix) == Join([i \in DOMAIN ts |-> NatStr(ts[i]) \o suffix], " ")

\* C7: generateCSSShorthand returns the shortest shorthand (1 to 4 tokens)
\* that expands, by the CSS rules, to the same four sides, and returns no
\* value exactly when all four sides are 0 and ignoreZero is true.
C7_ShortestShorthand ==
  Done("generateCSSShorthand") =>
    LET v == call.values
        ignoreZero == IF "ignoreZero" \in DOMAIN call.options THEN call.options.ignoreZero ELSE TRUE
        suffix == IF "suffix" \in DOMAIN call.options THEN call.options.suffix ELSE "px"
        fits == {ts \in Shorthands : Expand(ts) = v}
    IN IF ignoreZero /\ v = [top |-> 0, right |-> 0, bottom |-> 0, left |-> 0]
       THEN result = Undef
       ELSE \E ts \in fits :
              /\ result = Str(ShorthandText(ts, suffix))
              /\ \A u \in fits : Len(u) >= Len(ts)

C7_Witness ==
  /\ Done("generateCSSShorthand")
  /\ call.values = [top |-> 1, right |-> 2, bottom |-> 3, left |-> 2]
  /\ DOMAIN call.options = {}
  /\ result = Str("1px 2px 3px")

\* the least number of tiles of a size that reach across a length
TilesAcross(length, size) == CHOOSE n \in 1..length : n * size >= length /\ (n - 1) * size < length

\* C8: in TILE mode with source w x h and target W x H (all >= 1) the canvas
\* is exactly W x H and one tile of size min(w,W) x min(h,H) is composited at
\* every offset (tw*i, th*j), i < ceil(W/tw), j < ceil(H/th), and at no other;
\* every offset lies inside the canvas and the tiles cover every canvas pixel.
C8_TileGrid ==
  (Done("processImageBuffer") /\ call.options.mode = "TILE"
     /\ Truthy(call.options, "width") /\ Truthy(call.options, "height")) =>
    LET W == call.options.width
        H == call.options.height
        tw == Min(call.metadata.width, W)
        th == Min(call.metadata.height, H)
        grid == {[left |-> tw * i, top |-> th * j] :
                   i \in 0..(TilesAcross(W, tw) - 1), j \in 0..(TilesAcross(H, th) - 1)}
        placed == {result.composite[k] : k \in DOMAIN result.composite}
    IN /\ result.op = "composite"
       /\ result.canvas = [width |-> W, height |-> H]
       /\ result.tile = [width |-> tw, height |-> th]
       /\ placed = grid
       /\ Len(result.composite) = Cardinality(grid)
       /\ \A o \in placed : o.left >= 0 /\ o.left < W /\ o.top >= 0 /\ o.top < H
       /\ \A px \in 0..(W - 1), py \in 0..(H - 1) :
            \E o \in placed : /\ o.left <= px /\ px < o.left + tw
                              /\ o.top <= py /\ py < o.top + th

C8_Witness ==
  /\ Done("processImageBuffer")
  /\ call.options.mode = "TILE"
  /\ call.metadata.width = 50 /\ call.metadata.height = 50
  /\ call.options.width = 120 /\ call.options.height = 80
  /\ result.canvas = [width |-> 120, height |-> 80]
  /\ result.composite = << [left |-> 0, top |-> 0], [left |-> 50, top |-> 0],
                           [left |-> 100, top |-> 0], [left |-> 0, top |-> 50],
                           [left |-> 50, top |-> 50], [left |-> 100, top |-> 50] >>

\* the hex argument without its leading #, when it has one
Bare(hex) == IF Len(hex) > 0 /\ Head(hex) = "#" THEN Tail(hex) ELSE hex

\* C10: for every 3-digit hex colour abc (with or without #) and opacity o,
\* hexToRgba(abc, o) equals hexToRgba(aabbcc, o), the printed opacity is o
\* clamped into [0, 1], and the call does not throw.
C10_ShortHexEqualsLong ==
  (Done("hexToRgba") /\ Len(Bare(call.hex)) = 3) =>
    LET d == Bare(call.hex)
        o == IF "opacity" \in DOMAIN call THEN call.opacity ELSE 100
        clamped == IF o < 0 THEN 0 ELSE IF o > 100 THEN 100 ELSE o
        long == <<d[1], d[1], d[2], d[2], d[3], d[3]>>
    IN /\ ~IsThrow(result)
       /\ result = hexToRgba(long, o)
       /\ result = hexToRgba(<<"#">> \o long, o)
       /\ result = Str("rgba(" \o NatStr(17 * HexCharValue(d[1])) \o ", "
                         \o NatStr(17 * HexCharValue(d[2])) \o ", "
                         \o NatStr(17 * HexCharValue(d[3])) \o ", "
                         \o HundredthsStr(clamped) \o ")")

C10_Witness ==
  /\ Done("hexToRgba")
  /\ call.hex = <<"#", "F", "a", "0">>
  /\ "opacity" \in DOMAIN call /\ call.opacity = 150
  /\ result = Str("rgba(255, 170, 0, 1)")

\* a raw node whose visible flag is explicitly false
Hidden(n) == "visible" \in DOMAIN n /\ n.visible = FALSE

RECURSIVE AllRaw(_)
\* every raw node of a forest
AllRaw(forest) ==
  UNION {{forest[i]} \cup (IF "children" \in DOMAIN forest[i] THEN AllRaw(forest[i].children) ELSE {})
           : i \in DOMAIN forest}

RECURSIVE Shown(_)
\* the raw nodes of a forest with no hidden ancestor-or-self
Shown(forest) ==
  UNION {IF Hidden(forest[i]) THEN {}
         ELSE {forest[i]} \cup (IF "children" \in DOMAIN forest[i] THEN Shown(forest[i].children) ELSE {})
           : i \in DOMAIN forest}

RECURSIVE OutNodes(_)
\* every simplified node of an array of simplified nodes
OutNodes(nodes) ==
  UNION {{nodes[i]} \cup (IF "children" \in DOMAIN nodes[i].o THEN OutNodes(nodes[i].o.children.a) ELSE {})
           : i \in DOMAIN nodes}

\* the simplified nodes of the design a parseFigmaResponse call returned
OutRoots == IF "nodes" \in DOMAIN result.o THEN result.o.nodes.a ELSE <<>>

Parsed == Done("parseFigmaResponse") /\ ~IsThrow(result)

\* C1: a node whose visible is explicitly false is absent from the output of
\* parseFigmaResponse, with its whole subtree, at the root list and at every
\* depth; the nodes that are not under a hidden node are all simplified.
C1_HiddenSubtreesDropped ==
  Parsed =>
    LET raw == NodesToParse(call.data)
        out == {o.o.id : o \in OutNodes(OutRoots)}
    IN /\ \A n \in AllRaw(raw) \ Shown(raw) : Str(n.id) \notin out
       /\ \A n \in Shown(raw) : Str(n.id) \in out

C1_Witness ==
  /\ Parsed
  /\ LET raw == NodesToParse(call.data)
     IN /\ Len(raw) = 2
        /\ Hidden(raw[1])
        /\ "children" \in DOMAIN raw[1]
        /\ Len(raw[1].children) = 1
        /\ "visible" \in DOMAIN raw[1].children[1] /\ raw[1].children[1].visible
        /\ ~Hidden(raw[2])
        /\ {o.o.id : o \in OutNodes(OutRoots)} = {Str("2")}

\* C9: for every visible raw node at any depth the simplified node's type is
\* IMAGE-SVG if the raw type is VECTOR and the raw type otherwise; id and
\* name are copied verbatim.
C9_VectorRetagged ==
  Parsed =>
    \A n \in Shown(NodesToParse(call.data)) :
      \E o \in OutNodes(OutRoots) :
        /\ o.o.id = Str(n.id)
        /\ o.o.name = Str(n.name)
        /\ o.o.type = Str(IF n.type = "VECTOR" THEN "IMAGE-SVG" ELSE n.type)

C9_Witness ==
  /\ Parsed
  /\ LET raw == NodesToParse(call.data)
     IN /\ Len(raw) = 1
        /\ raw[1].type = "FRAME"
        /\ Len(raw[1].children) = 1
        /\ raw[1].children[1].type = "VECTOR"
        /\ OutRoots[1].o.children.a[1].o.type = Str("IMAGE-SVG")
        /\ OutRoots[1].o.children.a[1].o.name = Str("Icon")
        /\ OutRoots[1].o.children.a[1].o.id = Str("1:1")

RECURSIVE Located(_, _)
\* every node of an array of simplified nodes with its place: the indices
\* from the root array down to it, and its fields other than children
Located(nodes, prefix) ==
  UNION {{[path |-> Append(prefix, i), fields |-> Delete(nodes[i].o, "children")]}
           \cup (IF "children" \in DOMAIN nodes[i].o
                 THEN Located(nodes[i].o.children.a, Append(prefix, i)) ELSE {})
           : i \in DOMAIN nodes}

RECURSIVE WithChildrenKey(_, _)
\* the places of the nodes that carry a children key
WithChildrenKey(nodes, prefix) ==
  UNION {(IF "children" \in DOMAIN nodes[i].o
          THEN {Append(prefix, i)} \cup WithChildrenKey(nodes[i].o.children.a, Append(prefix, i))
          ELSE {})
           : i \in DOMAIN nodes}

\* C4: for maxLayers N >= 1, limitNodeDepth returns exactly the nodes at
\* layers 1..N of its input, at the same places (same order, same parent),
\* and no node at layer N carries a children key; nodes above layer N keep
\* theirs.
C4_DepthLimited ==
  Done("limitNodeDepth") =>
    LET N == call.maxLayers
    IN /\ Located(result.a, <<>>) = {l \in Located(call.nodes, <<>>) : Len(l.path) <= N}
       /\ WithChildrenKey(result.a, <<>>)
            = {p \in WithChildrenKey(call.nodes, <<>>) : Len(p) < N}

C4_Witness ==
  /\ Done("limitNodeDepth")
  /\ call.maxLayers = 2
  /\ \E l \in Located(call.nodes, <<>>) : l.path = <<1, 1, 1>>
  /\ [path |-> <<1, 1>>, fields |-> Delete(call.nodes[1].o.children.a[1].o, "children")]
       \in Located(result.a, <<>>)
  /\ WithChildrenKey(result.a, <<>>) = {<<1>>}

(***************************************************************************)
(* Unknown paint types                                                     *)
(***************************************************************************)
KnownPaintTypes ==
  {"SOLID", "IMAGE", "PATTERN", "GRADIENT_LINEAR", "GRADIENT_RADIAL", "GRADIENT_ANGULAR",
   "GRADIENT_DIAMOND"}

\* n has a fill of a type parsePaint does not know
HasUnknownFill(n) ==
  "fills" \in DOMAIN n /\ \E i \in DOMAIN n.fills : n.fills[i].type \notin KnownPaintTypes

\* C11: parsePaint fails on a paint of an unknown type, and parseFigmaResponse
\* fails as a whole (it returns no design) whenever such a paint is among the
\* fills of a node that is visible and whose ancestors are all visible.
C11_UnknownPaintAborts ==
  /\ (Done("parsePaint") /\ call.raw.type \notin KnownPaintTypes) => result.t = "throw"
  /\ (Done("parseFigmaResponse")
        /\ \E n \in Shown(NodesToParse(call.data)) : HasUnknownFill(n))
       => result.t = "throw"

C11_Witness ==
  /\ Done("parseFigmaResponse")
  /\ result.t = "throw"
  /\ LET raw == NodesToParse(call.data)
     IN /\ Len(raw) = 2
        /\ ~HasUnknownFill(raw[1]) /\ ~Hidden(raw[1])
        /\ "children" \in DOMAIN raw[1] /\ Len(raw[1].children) = 1
        /\ HasUnknownFill(raw[1].children[1]) /\ ~Hidden(raw[1].children[1])
        /\ ~HasUnknownFill(raw[2])

(***************************************************************************)
(* Gradient fallbacks                                                      *)
(***************************************************************************)
\* C12: for every paint of a gradient type, whatever its handle positions
\* and stops, parsePaint returns a string and does not throw.
C12_GradientNeverThrows ==
  (Done("parsePaint") /\ call.raw.type \in KnownPaintTypes \ {"SOLID", "IMAGE", "PATTERN"})
    => result.t = "string"

\* the fixed fallback string
FixedFallback == "linear-gradient(0deg, rgba(0,0,0,1) 0%, rgba(255,255,255,1) 100%)"

\* the stops black at 0 and half-transparent coral at 2/3, as CSS
BlackCoralCss == "rgba(0, 0, 0, 1) 0%, rgba(255, 128, 85, 0.5) 67%"

GradientDone == Done("parsePaint") /\ call.raw.type \in KnownPaintTypes \ {"SOLID", "IMAGE", "PATTERN"}

BothPresent == "gradientHandlePositions" \in DOMAIN call.raw /\ "gradientStops" \in DOMAIN call.raw

\* a handle that is not a point makes the conversion fail internally
InternalError ==
  /\ Len(call.raw.gradientHandlePositions) >= 2
  /\ \E i \in DOMAIN call.raw.gradientHandlePositions :
        call.raw.gradientHandlePositions[i] = [t |-> "null"]

\* every stop of the paint has a colour
StopsUsable == \A i \in DOMAIN call.raw.gradientStops : "color" \in DOMAIN call.raw.gradientStops[i]

\* the CSS of the paint's stops, on the stop lists drawn here
StopsCss == IF Len(call.raw.gradientStops) = 0
            THEN "rgba(0,0,0,1) 0%, rgba(255,255,255,1) 100%" ELSE BlackCoralCss

Validated == Done("validateImageProcessingOptions")

QualityError == [t |-> "throw", msg |-> "Quality must be between 1 and 100"]

\* C14: validateImageProcessingOptions throws whenever quality is supplied
\* as a number below 1 (0 and negatives included) or above 100, and does not
\* throw on account of quality when quality is within [1, 100] or absent.
C14_QualityOutsideRangeThrows ==
  Validated =>
    /\ ("quality" \in DOMAIN call.options
          /\ (call.options.quality < 1 \/ call.options.quality > 100)) => result.t = "throw"
    /\ ("quality" \notin DOMAIN call.options
          \/ (call.options.quality >= 1 /\ call.options.quality <= 100)) => result # QualityError

\* C15: validateImageProcessingOptions throws whenever width or height is
\* supplied with a value <= 0 (0 included) and whenever mode is none of
\* FILL, FIT, CROP, TILE; it accepts options without width and height.
C15_NonPositiveExtentThrows ==
  Validated =>
    /\ (\E k \in {"width", "height"} : k \in DOMAIN call.options /\ call.options[k] <= 0)
         => result.t = "throw"
    /\ call.options.mode \notin {"FILL", "FIT", "CROP", "TILE"} => result.t = "throw"
    /\ (DOMAIN call.options = {"mode"} /\ call.options.mode \in {"FILL", "FIT", "CROP", "TILE"})
         => result.t = "undefined"

(***************************************************************************)
(* Image download batches                                                  *)
(***************************************************************************)
Reported == Done("downloadImagesCommand")

\* the processing options the command hands to every image job, if any
Enabled ==
  "imageProcessing" \in DOMAIN call.options /\ call.options.imageProcessing.enabled

\* processing is attempted for the jobs of this command
Attempted ==
  /\ Enabled
  /\ \E k \in {"width", "height"} :
        k \in DOMAIN call.options.imageProcessing /\ call.options.imageProcessing[k] # 0

\* processImageBuffer throws for job j: the bytes do not decode, or the mode is unknown
ProcessingThrows(j) ==
  Attempted /\ (jobs[j].remote.corrupt
                 \/ call.options.imageProcessing.mode \notin {"FILL", "FIT", "CROP", "TILE"})

C17_ProcessingFallback ==
  \A j \in DOMAIN jobs :
    ProcessingThrows(j) =>
      /\ jobs[j].at = "rejected" => ~jobs[j].remote.ok
      /\ jobs[j].at \in {"write", "resolved"} =>
           /\ jobs[j].buffer = [bytes |-> jobs[j].remote.bytes]
           /\ \E i \in DOMAIN console :
                /\ console[i].stream = "warn"
                /\ console[i].text \in
                     {"Image processing failed for " \o jobs[j].fileName \o ": " \o m
                        \o ". Using original image." :
                      m \in {"Input buffer contains unsupported image format",
                             "Unsupported image processing mode: STRETCH"}}
      /\ jobs[j].at = "resolved" =>
           /\ files[jobs[j].fullPath] = [bytes |-> jobs[j].remote.bytes]
           /\ jobs[j].value = jobs[j].fullPath

C17_Witness ==
  /\ Len(jobs) = 2
  /\ ProcessingThrows(1)
  /\ call.options.imageProcessing.mode = "FIT"
  /\ jobs[1].at = "resolved"
  /\ files[jobs[1].fullPath] = [bytes |-> "bytes1"]
  /\ jobs[2].at = "resolved"
  /\ files[jobs[2].fullPath] # [bytes |-> "bytes2"]

\* C18: an image job whose processing options are invalid (here a mode that
\* is none of FILL, FIT, CROP, TILE) fails as that single job: it is
\* rejected before any image bytes are processed and writes no file.
C18_InvalidOptionsRejected ==
  \A j \in DOMAIN jobs :
    (Enabled /\ call.options.imageProcessing.mode \notin {"FILL", "FIT", "CROP", "TILE"}) =>
      /\ jobs[j].at \notin {"write", "resolved"}
      /\ jobs[j].fullPath \notin DOMAIN files

AnsweredWith(uri) ==
  {i \in DOMAIN console :
     "resource" \in DOMAIN console[i].answer /\ console[i].answer.resource = uri}

\* the successful tool calls so far stored under the key of the URI
StoredUnder(uri) ==
  {i \in DOMAIN console :
     ~console[i].answer.isError
       /\ <<"f", "i", "g", "m", "a", ":", "/", "/">> \o ResultKey(console[i].args) = uri}

\* C20: after a successful get_figma_data call answered with the URI
\* figma://<key>, a resources/read of that URI returns one content entry
\* whose text is the JSON of that call's result, with file and nodes; after
\* several calls with the same key it is the result of the latest of them;
\* a read of a key never stored fails with an error.
C20_ReadReturnsLatest ==
  call.fn = "resources/read" =>
    /\ AnsweredWith(call.uri) # {} =>
         LET latest == console[CHOOSE i \in StoredUnder(call.uri) :
                                 \A j \in StoredUnder(call.uri) : j <= i]
         IN /\ "contents" \in DOMAIN result
            /\ Len(result.contents) = 1
            /\ result.contents[1].text.json.nodes = latest.fetched.nodes
            /\ result.contents[1].text.json.file.name = latest.fetched.name
            /\ DOMAIN result.contents[1].text.json.file = {"name", "lastModified", "thumbnailUrl"}
    /\ (StoredUnder(call.uri) = {} /\ Len(call.uri) > 8 /\ call.uri[1] = "f") =>
         /\ "contents" \notin DOMAIN result
         /\ result.t = "throw"

(***************************************************************************)
(* Client detection                                                        *)
(***************************************************************************)
\* C21: a successful get_figma_data call from a Claude Desktop client
\* (clientInfo name claude-ai) is answered with the design data itself, a
\* call from any other client with the resource reference only; the
\* handshake decides, whatever the environment variables are.
C21_ClientDecidesAnswer ==
  (call.fn = "get_figma_data" /\ ~result.isError) =>
    IF server.client = "claude-ai"
    THEN "data" \in DOMAIN result /\ {"file", "nodes"} \subseteq DOMAIN result.data
    ELSE "resource" \in DOMAIN result /\ "data" \notin DOMAIN result

(***************************************************************************)
(* Published resources                                                     *)
(***************************************************************************)
\* C27: on the server that hooks figmaDataStore.set, over any sequence of
\* get_figma_data calls every resource key is registered at most once, and
\* every call whose fetch succeeded is answered with a success response.
C27_RegisteredOnce ==
  /\ \A i, j \in DOMAIN server.registered :
       server.registered[i] = server.registered[j] => i = j
  /\ (call.fn = "get_figma_data" /\ "error" \notin DOMAIN call.fetched) => ~result.isError

(***************************************************************************)
(* Render requests                                                         *)
(***************************************************************************)
Started == pc \in {"downloading", "done"} /\ call.fn = "downloadImagesCommand"

\* the jobs started for the node
JobsOf(node) == {j \in DOMAIN jobs : jobs[j].request.nodeId = node.nodeId}

\* C22: every node without a truthy imageRef becomes one render request
\* whose name ends in .svg or .png with the matching fileType (a .png name
\* as png unchanged, an .svg name as svg unchanged, any other name as svg
\* with .svg appended), every node with one becomes one fill download, and
\* no node is dropped or started twice.
C22_RenderRequests ==
  Started =>
    /\ Len(jobs) = Len(call.options.nodes)
    /\ \A i \in DOMAIN call.options.nodes :
         LET node == call.options.nodes[i]
         IN /\ Cardinality(JobsOf(node)) = 1
            /\ \A j \in JobsOf(node) :
                 IF "imageRef" \in DOMAIN node /\ node.imageRef # ""
                 THEN jobs[j].batch = "fill"
                 ELSE /\ jobs[j].batch = "render"
                      /\ jobs[j].request.fileName.ext = "." \o jobs[j].request.fileType
                      /\ jobs[j].request.fileType =
                           (IF node.fileName.ext = ".png" THEN "png" ELSE "svg")
                      /\ jobs[j].request.fileName =
                           (IF node.fileName.ext \in {".png", ".svg"} THEN node.fileName
                            ELSE [stem |-> node.fileName.stem \o node.fileName.ext, ext |-> ".svg"])

C22_Witness ==
  /\ Started
  /\ Len(call.options.nodes) = 2
  /\ "imageRef" \in DOMAIN call.options.nodes[1]
  /\ \E j, k \in DOMAIN jobs :
       /\ jobs[j].batch = "fill" /\ jobs[j].request.nodeId = "2:1"
       /\ jobs[k].batch = "render" /\ jobs[k].request.nodeId = "1:1"
       /\ jobs[k].request.fileName = [stem |-> "icon1", ext |-> ".svg"]
       /\ jobs[k].request.fileType = "svg"

(***************************************************************************)
(* Depth limiting leaves its input alone                                   *)
(***************************************************************************)
\* the cells the call allocated
Fresh == {r \in DOMAIN heap.cells : r > Len(HeapOf(call.nodes).cells)}

\* the returned arrays' slots, as <<array, index>>
FreshSlots == {<<r, i>> \in Fresh \X (1..MaxTreeNodes) : "a" \in DOMAIN heap.cells[r] /\ i <= Len(heap.cells[r].a)}

\* C23: limitNodeDepth leaves the input array, every input node and every
\* input children array as they were, and every node it returns is an
\* object of its own that agrees with its input node on every field but
\* children.
C23_InputUntouched ==
  (pc = "done" /\ call.fn = "limitNodeDepth") =>
    /\ \A r \in DOMAIN HeapOf(call.nodes).cells : heap.cells[r] = HeapOf(call.nodes).cells[r]
    /\ ReadArray(heap.cells, heap.nodes) = call.nodes
    /\ Arr(ReadArray(heap.cells, heap.returned)) = result
    /\ heap.returned \in Fresh
    /\ \A s \in FreshSlots : heap.cells[s[1]].a[s[2]] \in Fresh
    /\ \A s, t \in FreshSlots : heap.cells[s[1]].a[s[2]] = heap.cells[t[1]].a[t[2]] => s = t
    /\ \A i \in DOMAIN heap.cells[heap.returned].a :
         LET limited == heap.cells[heap.cells[heap.returned].a[i]].o
             node == heap.cells[heap.cells[heap.nodes].a[i]].o
         IN \A k \in (DOMAIN limited \cup DOMAIN node) \ {"children"} :
              k \in DOMAIN limited /\ k \in DOMAIN node /\ limited[k] = node[k]

C23_Witness ==
  /\ pc = "done" /\ call.fn = "limitNodeDepth"
  /\ call.maxLayers = 2
  /\ \E i \in DOMAIN heap.cells[heap.returned].a :
       LET limited == heap.cells[heap.cells[heap.returned].a[i]].o
       IN /\ "children" \in DOMAIN limited
          /\ \E j \in DOMAIN heap.cells[limited.children].a :
               LET inner == heap.cells[heap.cells[limited.children].a[j]].o
                   node == heap.cells[heap.cells[heap.cells[heap.cells[heap.nodes].a[i]].o.children].a[j]].o
               IN /\ "children" \notin DOMAIN inner
                  /\ "children" \in DOMAIN node
                  /\ Len(heap.cells[node.children].a) > 0

(***************************************************************************)
(* Depth limiting and empty children                                       *)
(***************************************************************************)
RECURSIVE EmptyChildrenIn(_)
\* some node of the forest has an empty children array
EmptyChildrenIn(nodes) ==
  \E i \in DOMAIN nodes :
    /\ "children" \in DOMAIN nodes[i].o
    /\ \/ Len(nodes[i].o.children.a) = 0
       \/ EmptyChildrenIn(nodes[i].o.children.a)

\* C24: if no node of the input has an empty children array, then for
\* every maxLayers >= 1 no node of limitNodeDepth's result has one, and the
\* result is not the empty array of the currentLayer > maxLayers branch.
C24_NoEmptyChildren ==
  (pc = "done" /\ call.fn = "limitNodeDepth" /\ ~EmptyChildrenIn(call.nodes)) =>
    /\ ~EmptyChildrenIn(result.a)
    /\ Len(result.a) = Len(call.nodes)

C24_Witness ==
  /\ pc = "done" /\ call.fn = "limitNodeDepth"
  /\ ~EmptyChildrenIn(call.nodes)
  /\ call.maxLayers = 2
  /\ \E i \in DOMAIN call.nodes :
       /\ "children" \in DOMAIN call.nodes[i].o
       /\ \E j \in DOMAIN call.nodes[i].o.children.a :
            /\ "children" \in DOMAIN call.nodes[i].o.children.a[j].o
            /\ "children" \notin DOMAIN result.a[i].o.children.a[j].o

(***************************************************************************)
(* Depth limits compose                                                    *)
(***************************************************************************)
\* C29: limiting the result of limitNodeDepth(t, m) to n layers gives
\* limitNodeDepth(t, min(m, n)), for all m, n >= 1: the function is
\* idempotent for a fixed depth and a larger limit removes nothing a
\* smaller limit keeps.
C29_LimitsCompose ==
  (pc = "done" /\ call.fn = "limitNodeDepth") =>
    \A n \in 1..MaxLayers :
      limitNodeDepth(result.a, n, 1) = limitNodeDepth(call.nodes, Min(call.maxLayers, n), 1)

C29_Witness ==
  /\ pc = "done" /\ call.fn = "limitNodeDepth"
  /\ call.maxLayers = 3
  /\ Arr(call.nodes) # result
  /\ limitNodeDepth(result.a, 2, 1) # result.a
  /\ limitNodeDepth(result.a, 2, 1) = limitNodeDepth(call.nodes, 2, 1)
  /\ limitNodeDepth(result.a, 3, 1) = result.a

(***************************************************************************)
(* The keys of the simplified design                                       *)
(***************************************************************************)
\* C25: for every API response the design parseFigmaResponse returns
\* carries the keys nodes, components and componentSets, and the get-data
\* command prints its output instead of ending in the error path.
C25_DesignKeysPresent ==
  (call.fn = "parseFigmaResponse" /\ pc \in {"done", "printed"}) =>
    /\ {"nodes", "components", "componentSets"} \subseteq DOMAIN result.o
    /\ pc = "printed" => console[1].stream = "stdout" /\ console[1].exit = 0

(***************************************************************************)
(* Resource keys                                                           *)
(***************************************************************************)
\* the file, node and depth a tool call asks for
Request(args) == [k \in DOMAIN args \ {"direct"} |-> args[k]]

\* C26: two successful get_figma_data requests that differ in fileKey,
\* nodeId or depth are stored under different figmaDataStore keys, so the
\* entry of one is never overwritten by the other.
C26_KeysUnique ==
  call.fn \in {"get_figma_data", "resources/read"} =>
    \A i, j \in DOMAIN console :
      (~console[i].answer.isError /\ ~console[j].answer.isError
         /\ Request(console[i].args) # Request(console[j].args))
        => ResultKey(console[i].args) # ResultKey(console[j].args)

(***************************************************************************)
(* Failed fetches                                                          *)
(***************************************************************************)
\* C28: a get_figma_data call whose fetch fails is answered with an isError
\* response and leaves figmaDataStore as it was: no key added, no stored
\* result overwritten or removed.
C28_FailedFetchKeepsStore ==
  [][(call'.fn = "get_figma_data" /\ console' # console
        /\ "error" \in DOMAIN call'.fetched)
       => (result'.isError /\ store' = store)]_vars

C28_Witness ==
  /\ call.fn = "get_figma_data"
  /\ "error" \in DOMAIN call.fetched
  /\ result.isError
  /\ Len(console) = 2
  /\ ~console[1].answer.isError
  /\ DOMAIN store = {ResultKey(console[1].args)}
  /\ store[ResultKey(console[1].args)].data.json.file.name = console[1].fetched.name

(***************************************************************************)
(* The simplified tree against the raw tree                                *)
(***************************************************************************)
RECURSIVE VisibleShape(_)
\* the ids of the raw nodes with no hidden ancestor-or-self, nested and
\* ordered as the raw forest nests and orders them
VisibleShape(forest) ==
  LET shown == SelectSeq(forest, LAMBDA n : ~Hidden(n))
  IN [i \in DOMAIN shown |->
        <<Str(shown[i].id),
          IF "children" \in DOMAIN shown[i] THEN VisibleShape(shown[i].children) ELSE <<>> >>]

RECURSIVE OutShape(_)
\* the ids of an array of simplified nodes, nested and ordered as it is
OutShape(nodes) ==
  [i \in DOMAIN nodes |->
     <<nodes[i].o.id,
       IF "children" \in DOMAIN nodes[i].o THEN OutShape(nodes[i].o.children.a) ELSE <<>> >>]

\* the cells parseFigmaResponse allocated: those behind the array of the raw
\* top-level nodes, the last cell the caller allocated
Made == {r \in DOMAIN heap.cells : r > heap.nodes}

\* the places a cell is referenced from among the cells parseFigmaResponse allocated
MadeSlots(ref) ==
  {<<r, i>> \in Made \X (1..MaxNodes) :
     "a" \in DOMAIN heap.cells[r] /\ i <= Len(heap.cells[r].a) /\ heap.cells[r].a[i] = ref}

\* C30: the simplified tree parseFigmaResponse returns mirrors the visible
\* raw tree: one simplified node for every raw node with no hidden
\* ancestor-or-self, under the simplified node of its raw parent and in the
\* raw sibling order; no node appears twice, no simplified node refers to
\* its parent, and the raw nodes the caller holds are left as they were.
C30_TreeMirrored ==
  Parsed =>
    /\ heap.nodes = RawHeapOf(NodesToParse(call.data)).nodes
    /\ SubSeq(heap.cells, 1, heap.nodes) = RawHeapOf(NodesToParse(call.data)).cells
    /\ OutShape(OutRoots) = VisibleShape(NodesToParse(call.data))
    /\ \A node \in OutNodes(OutRoots) : "parent" \notin DOMAIN node.o
    /\ removeEmptyKeys(Arr(ReadArray(heap.cells, heap.returned))) = Arr(OutRoots)
    /\ heap.returned \in Made
    /\ \A r \in Made :
         IF "a" \in DOMAIN heap.cells[r]
         THEN \A i \in DOMAIN heap.cells[r].a : heap.cells[r].a[i] \in Made
         ELSE /\ Cardinality(MadeSlots(r)) = 1
              /\ "children" \in DOMAIN heap.cells[r].o => heap.cells[r].o.children \in Made

C30_Witness ==
  /\ Parsed
  /\ LET raw == NodesToParse(call.data)
     IN /\ Len(raw) = 1
        /\ ~Hidden(raw[1])
        /\ "children" \in DOMAIN raw[1]
        /\ Len(raw[1].children) = 2
        /\ Hidden(raw[1].children[1])
        /\ ~Hidden(raw[1].children[2])
  /\ OutShape(OutRoots) = << <<Str("1"), << <<Str("1:2"), <<>> >> >> >> >>
  /\ Cardinality({r \in Made : "o" \in DOMAIN heap.cells[r]}) = 2

====
